---- MODULE Spec2Model ----
(***************************************************************************)
(* Verification model of the DAM OKD codec (dam-song-tools-oss).           *)
(*                                                                         *)
(* Each subsystem of the codec is a small state machine over its own       *)
(* variables:                                                              *)
(*   SpecVarInt      okd_midi.write_variable_int / read_variable_int       *)
(*   SpecVarIntRead  okd_midi.read_variable_int on raw byte sequences      *)
(*   SpecExtVarInt   okd_midi.write/read_extended_variable_int             *)
(*   SpecScramble    okd_file_scramble.scramble / descramble               *)
(*   SpecPTrack      PTrackChunk.absolute_time_track                       *)
(*   SpecChunk       ChunkBase.write, then read_chunk                      *)
(*   SpecOkdFile     OkdFile.write(should_scramble=False), then            *)
(*                   OkdFile.read                                          *)
(*   SpecOkdRewrite  OkdFile.read of a plaintext file, then OkdFile.write  *)
(*   SpecTrackInfo   PTrackInfoEntry / P3TrackInfoChunk written and read   *)
(*   SpecInterpretation  MTrackInterpretation.from_track                   *)
(*   SpecAdpcm       AdpcmDecoder.decode                                   *)
(*   SpecMidiToPTracks   p_track_conversion.midi_to_p_tracks               *)
(*   SpecOkdToMidi   okd.utils.okd_to_midi up to its check of the chunks   *)
(*   SpecScan        ChunkBase._read_common, peek_header, __seek_header,   *)
(*                   index_chunk on a stream of chunks                     *)
(*   SpecOkdScrambled    OkdFile.write with either flag, then OkdFile.read *)
(*   SpecMsToTicks   MidiTimeConverter.ms_to_ticks                         *)
(*   SpecTrackParse  MTrackChunk.from_generic, PTrackChunk.from_generic    *)
(*   SpecPTrackToMidi    p_track_conversion.p_track_to_midi                *)
(* Byte streams are sequences over 0..255 with a 0-based position, as      *)
(* io.BytesIO: the next byte read is stream[position + 1].                 *)
(***************************************************************************)
EXTENDS Integers, Sequences, FiniteSets, TLC

VARIABLES
    pc,             \* the operation the program performs next
    value,          \* okd_midi: the integer handed to the writer
    trailer,        \* okd_midi: the bytes that follow the written integer
    stream,         \* okd_midi: the content of the byte stream
    position,       \* okd_midi: stream.tell()
    read_value,     \* okd_midi: outcome of the reader
    scramble_pattern_index, \* okd_file_scramble: the start index
    length,                 \* okd_file_scramble: the length argument
    plaintext_buffer,       \* okd_file_scramble: content of scramble's input
    scrambled,              \* okd_file_scramble: outcome of scramble
    descrambled,            \* okd_file_scramble: outcome of descramble
    track_info_list,            \* p_track_chunk: the entries of the info chunk
    events,                     \* p_track_chunk: PTrackChunk.events
    event_index,                \* p_track_chunk: events the loop has handled
    absolute_time,              \* p_track_chunk: absolute_time
    channel_grouping_enabled,   \* p_track_chunk: channel_grouping_enabled
    absolute_time_track,        \* p_track_chunk: absolute_time_track
    relocate_calls,             \* p_track_chunk: the __relocate_event calls
                                \* of the last iteration, with what they returned
    chunk,          \* chunks: the chunk object that is written
    chunk_stream,   \* chunks: the bytes ChunkBase.write produced
    chunk_read,     \* chunks: outcome of read_chunk
    okd_file,       \* okd_file: the OkdFile object that is written
    okd_stream,     \* okd_file: the bytes OkdFile.write produced
    okd_read,       \* okd_file: outcome of OkdFile.read
    okd_written,    \* okd_file: the bytes OkdFile.write produced from the value read
    info_entry,     \* track info: the entry or P3 chunk that is written
    info_stream,    \* track info: the bytes written for it
    info_read,      \* track info: outcome of reading them
    m_track,        \* m_track_chunk: the MTrackChunk that is interpreted
    m_absolute_time_track, \* m_track_chunk: track.absolute_time_track()
    m_event_index,  \* m_track_chunk: events the loop of from_track has handled
    interpretation, \* m_track_chunk: the lists and the locals of from_track
    adpcm_stream,   \* adpcm: the content of the stream that is decoded
    adpcm_position, \* adpcm: stream.tell()
    adpcm_decoder,  \* adpcm: prev1 and prev2 of the AdpcmDecoder
    adpcm_decoded,  \* adpcm: the list `decoded` of decode
    midi,           \* p_track_conversion: the mido.MidiFile that is converted
    list_objects,   \* p_track_conversion: the content of each list object
    absolute_time_tracks, \* p_track_conversion: the list object each port's entry refers to
    p_tracks,       \* p_track_conversion: outcome of midi_to_p_tracks
    okd_chunks,     \* okd/utils: okd.chunks of the OkdFile handed to okd_to_midi
    chunk_index,    \* okd/utils: chunks the loop of okd_to_midi has handled
    okd_to_midi_locals, \* okd/utils: the local variables of okd_to_midi
    okd_to_midi_outcome, \* okd/utils: what okd_to_midi raised or called
    scan_chunks,    \* chunk_base: the chunks the scanned stream was built from
    scan_stream,    \* chunk_base: the content of the scanned stream
    scan_start,     \* chunk_base: stream.tell() in front of the call
    scan_position,  \* chunk_base: stream.tell() behind the call
    scan_call,      \* chunk_base: the function that was called, with its target id
    scan_result,    \* chunk_base: what the call returned or raised
    header_objects, \* okd_file: the header objects, by reference
    okd_files,      \* okd_file: the OkdFile objects: the reference of the header, the chunks
    files_before,   \* okd_file: the value of each file in front of the write
    write_call,     \* okd_file: the file written, should_scramble and the index chosen
    written_stream, \* okd_file: the bytes the write produced
    read_back,      \* okd_file: the index OkdFile.read detected, and its outcome
    tempo_changes,  \* midi_time_converter: the (position_ms, tempo_bpm) list of the converter
    times_ms,        \* midi_time_converter: the two times converted, the earlier first
    ticks_returned, \* midi_time_converter: what ms_to_ticks returned for the two times
    parsed_generic, \* chunks: the generic chunk handed to from_generic
    parse_outcome,  \* chunks: the chunk from_generic returned, or its error
    to_midi_call,   \* p_track_conversion: the arguments of p_track_to_midi
    midi_devices,   \* p_track_conversion: the memories of midi_device_1 and midi_device_2
    midi_tracks,    \* p_track_conversion: midi.tracks, the messages of the 64 tracks
    track_times,    \* p_track_conversion: the tick of the last event per track
    to_midi_events, \* p_track_conversion: absolute_time_track with the meta events, sorted
    to_midi_index,  \* p_track_conversion: the events the loop has handled
    to_midi_outcome \* p_track_conversion: running, returned, or the exception raised

varsVarInt == <<value, trailer, stream, position, read_value>>

varsScramble ==
    <<scramble_pattern_index, length, plaintext_buffer, scrambled, descrambled>>

varsPTrack ==
    <<track_info_list, events, event_index, absolute_time,
      channel_grouping_enabled, absolute_time_track, relocate_calls>>

varsChunk == <<chunk, chunk_stream, chunk_read>>

varsOkdFile == <<okd_file, okd_stream, okd_read>>

\* OkdFile.read, then OkdFile.write of the value read
varsRewrite == <<okd_written>>

\* The info entry round trip
varsTrackInfo == <<info_entry, info_stream, info_read>>

\* MTrackInterpretation.from_track
varsInterpretation == <<m_track, m_absolute_time_track, m_event_index, interpretation>>

\* AdpcmDecoder.decode
varsAdpcm == <<adpcm_stream, adpcm_position, adpcm_decoder, adpcm_decoded>>

\* midi_to_p_tracks
varsConversion == <<midi, list_objects, absolute_time_tracks, p_tracks>>

\* okd_to_midi
varsOkdToMidi == <<okd_chunks, chunk_index, okd_to_midi_locals, okd_to_midi_outcome>>

\* ChunkBase._read_common, peek_header, __seek_header, index_chunk
varsScan == <<scan_chunks, scan_stream, scan_start, scan_position, scan_call, scan_result>>

\* OkdFile.write with either flag on files that may share a header, then OkdFile.read
varsScrambled == <<header_objects, okd_files, files_before, write_call, written_stream, read_back>>

\* MidiTimeConverter.ms_to_ticks at two times
varsTicks == <<tempo_changes, times_ms, ticks_returned>>

\* MTrackChunk.from_generic and PTrackChunk.from_generic of a raw payload
varsParse == <<parsed_generic, parse_outcome>>

\* p_track_to_midi, event by event
varsToMidi == <<to_midi_call, midi_devices, midi_tracks, track_times, to_midi_events, to_midi_index, to_midi_outcome>>

\* The groups behind each group, for the UNCHANGED of the groups before
varsAfterParse == <<varsToMidi>>

varsAfterTicks == <<varsParse, varsAfterParse>>

varsAfterScrambled == <<varsTicks, varsAfterTicks>>

varsAfterScan == <<varsScrambled, varsAfterScrambled>>

varsAfterOkdToMidi == <<varsScan, varsAfterScan>>

varsAfterConversion == <<varsOkdToMidi, varsAfterOkdToMidi>>

varsAfterAdpcm == <<varsConversion, varsAfterConversion>>

varsAfterInterpretation == <<varsAdpcm, varsAfterAdpcm>>

varsAfterTrackInfo == <<varsInterpretation, varsAfterInterpretation>>

varsAfterRewrite == <<varsTrackInfo, varsAfterTrackInfo>>

varsUtils == <<varsRewrite, varsAfterRewrite>>

vars == <<pc, varsVarInt, varsScramble, varsPTrack, varsChunk, varsOkdFile, varsUtils>>

\* No object: a chunk or a file that was not given, an operation that was
\* not called.
Nothing == [class |-> "None"]

\* Neither a chunk nor an OKD file is written or read.
IdleOkd ==
    /\ chunk = Nothing
    /\ chunk_stream = <<>>
    /\ chunk_read = Nothing
    /\ okd_file = Nothing
    /\ okd_stream = <<>>
    /\ okd_read = Nothing

\* No file is written a second time.
IdleRewrite == okd_written = <<>>

\* No info entry is written or read.
IdleTrackInfo ==
    /\ info_entry = Nothing
    /\ info_stream = <<>>
    /\ info_read = Nothing

\* No M-track is interpreted.
IdleInterpretation ==
    /\ m_track = Nothing
    /\ m_absolute_time_track = <<>>
    /\ m_event_index = 0
    /\ interpretation = Nothing

\* No ADPCM stream is decoded.
IdleAdpcm ==
    /\ adpcm_stream = <<>>
    /\ adpcm_position = 0
    /\ adpcm_decoder = Nothing
    /\ adpcm_decoded = <<>>

\* No MIDI file is converted.
IdleConversion ==
    /\ midi = Nothing
    /\ list_objects = <<>>
    /\ absolute_time_tracks = <<>>
    /\ p_tracks = <<>>

\* No OKD file is converted to MIDI.
IdleOkdToMidi ==
    /\ okd_chunks = <<>>
    /\ chunk_index = 0
    /\ okd_to_midi_locals = Nothing
    /\ okd_to_midi_outcome = Nothing

\* No stream of chunks is scanned.
IdleScan ==
    /\ scan_chunks = <<>>
    /\ scan_stream = <<>>
    /\ scan_start = 0
    /\ scan_position = 0
    /\ scan_call = Nothing
    /\ scan_result = Nothing

\* No file is written with a flag.
IdleScrambled ==
    /\ header_objects = <<>>
    /\ okd_files = <<>>
    /\ files_before = <<>>
    /\ write_call = Nothing
    /\ written_stream = <<>>
    /\ read_back = Nothing

\* No time is converted.
IdleTicks ==
    /\ tempo_changes = <<>>
    /\ times_ms = <<>>
    /\ ticks_returned = <<>>

\* No payload is parsed.
IdleParse ==
    /\ parsed_generic = Nothing
    /\ parse_outcome = Nothing

\* p_track_to_midi is not called.
IdleToMidi ==
    /\ to_midi_call = Nothing
    /\ midi_devices = <<>>
    /\ midi_tracks = <<>>
    /\ track_times = <<>>
    /\ to_midi_events = <<>>
    /\ to_midi_index = 0
    /\ to_midi_outcome = Nothing

IdleAfterToMidi == TRUE

IdleAfterParse == IdleToMidi /\ IdleAfterToMidi

IdleAfterTicks == IdleParse /\ IdleAfterParse

IdleAfterScrambled == IdleTicks /\ IdleAfterTicks

IdleAfterScan == IdleScrambled /\ IdleAfterScrambled

IdleAfterOkdToMidi == IdleScan /\ IdleAfterScan

IdleAfterConversion == IdleOkdToMidi /\ IdleAfterOkdToMidi

IdleAfterAdpcm == IdleConversion /\ IdleAfterConversion

IdleAfterInterpretation == IdleAdpcm /\ IdleAfterAdpcm

IdleAfterTrackInfo == IdleInterpretation /\ IdleAfterInterpretation

IdleAfterRewrite == IdleTrackInfo /\ IdleAfterTrackInfo

\* None of the later operations is in use.
IdleUtils == IdleRewrite /\ IdleAfterRewrite

(***************************************************************************)
(* Bit arithmetic on non-negative Python ints.                             *)
(***************************************************************************)
Shl(a, n) == a * (2 ^ n)

Shr(a, n) == a \div (2 ^ n)

RECURSIVE BitAnd(_, _)
BitAnd(a, b) ==
    IF a = 0 \/ b = 0 THEN 0
    ELSE ((a % 2) * (b % 2)) + 2 * BitAnd(a \div 2, b \div 2)

RECURSIVE BitOr(_, _)
BitOr(a, b) ==
    IF a = 0 THEN b
    ELSE IF b = 0 THEN a
    ELSE (IF (a % 2) + (b % 2) > 0 THEN 1 ELSE 0) + 2 * BitOr(a \div 2, b \div 2)

RECURSIVE BitXor(_, _)
BitXor(a, b) ==
    IF a = 0 THEN b
    ELSE IF b = 0 THEN a
    ELSE (((a % 2) + (b % 2)) % 2) + 2 * BitXor(a \div 2, b \div 2)

(***************************************************************************)
(* okd_midi.py                                                             *)
(***************************************************************************)
\* Largest value of the three-byte form: 0x04103F.
VARIABLE_INT_MAX == 266303

\* read_data_byte: one byte, consumed even when it is rejected for bit 7.
read_data_byte(s, pos) ==
    IF pos >= Len(s) THEN [ok |-> FALSE, byte |-> 0, pos |-> pos]
    ELSE LET byte == s[pos + 1] IN
         IF BitAnd(byte, 128) = 128
         THEN [ok |-> FALSE, byte |-> byte, pos |-> pos + 1]
         ELSE [ok |-> TRUE, byte |-> byte, pos |-> pos + 1]

\* peek_data_byte: as read_data_byte, the position restored after the read.
peek_data_byte(s, pos) ==
    IF pos >= Len(s) THEN [ok |-> FALSE, byte |-> 0, pos |-> pos]
    ELSE LET byte == s[pos + 1] IN
         IF BitAnd(byte, 128) = 128
         THEN [ok |-> FALSE, byte |-> byte, pos |-> pos]
         ELSE [ok |-> TRUE, byte |-> byte, pos |-> pos]

\* Mutant of read_variable_int_loop: the continuation bit is masked off
\* before the byte is accumulated.
RECURSIVE read_variable_int_loop_masked(_, _, _, _)
read_variable_int_loop_masked(s, pos, i, acc) ==
    IF i = 3 THEN [ok |-> FALSE, value |-> 0, pos |-> pos]
    ELSE LET r == read_data_byte(s, pos) IN
         IF ~r.ok THEN [ok |-> FALSE, value |-> 0, pos |-> r.pos]
         ELSE LET v == acc + Shl(BitAnd(r.byte, 63), i * 6) IN
              IF BitAnd(r.byte, 64) # 64
              THEN [ok |-> TRUE, value |-> v, pos |-> r.pos]
              ELSE read_variable_int_loop_masked(s, r.pos, i + 1, v)

\* The body of `for i in range(3)` of read_variable_int; falling out of the
\* loop is the "Invalid byte sequence" error.
RECURSIVE read_variable_int_loop(_, _, _, _)
read_variable_int_loop(s, pos, i, acc) ==
    IF i = 3 THEN [ok |-> FALSE, value |-> 0, pos |-> pos]
    ELSE LET r == read_data_byte(s, pos) IN
         IF ~r.ok THEN [ok |-> FALSE, value |-> 0, pos |-> r.pos]
         ELSE LET v == acc + Shl(r.byte, i * 6) IN
              IF BitAnd(r.byte, 64) # 64
              THEN [ok |-> TRUE, value |-> v, pos |-> r.pos]
              ELSE read_variable_int_loop(s, r.pos, i + 1, v)

read_variable_int(s, pos) == read_variable_int_loop(s, pos, 0, 0)

\* Mutant of write_variable_int_loop: the trailing 0x00 after a final byte
\* that carries the continuation bit is not written.
RECURSIVE write_variable_int_loop_no_terminator(_, _, _)
write_variable_int_loop_no_terminator(i, v, out) ==
    IF i = 3 THEN out
    ELSE LET masked_value == BitAnd(v, Shl(63, i * 6))
             byte0 == Shr(masked_value, i * 6)
             next0 == v - masked_value
             byte == IF next0 # 0 THEN BitOr(byte0, 64) ELSE byte0
             next_value == IF next0 # 0 THEN next0 - Shl(64, i * 6) ELSE next0
             out1 == Append(out, byte)
         IN  IF next_value = 0 THEN out1
             ELSE write_variable_int_loop_no_terminator(i + 1, next_value, out1)

\* The body of `for i in range(3)` of write_variable_int.
RECURSIVE write_variable_int_loop(_, _, _)
write_variable_int_loop(i, v, out) ==
    IF i = 3 THEN out
    ELSE LET masked_value == BitAnd(v, Shl(63, i * 6))
             byte0 == Shr(masked_value, i * 6)
             next0 == v - masked_value
             byte == IF next0 # 0 THEN BitOr(byte0, 64) ELSE byte0
             next_value == IF next0 # 0 THEN next0 - Shl(64, i * 6) ELSE next0
             out1 == Append(out, byte)
         IN  IF next_value = 0
             THEN (IF BitAnd(byte, 64) = 64 THEN Append(out1, 0) ELSE out1)
             ELSE write_variable_int_loop(i + 1, next_value, out1)

\* write_variable_int: ValueError above 0x04103F, nothing written then.
write_variable_int(v) ==
    IF VARIABLE_INT_MAX < v THEN [ok |-> FALSE, bytes |-> <<>>]
    ELSE [ok |-> TRUE, bytes |-> write_variable_int_loop(0, v, <<>>)]

\* Mutant of write_extended_variable_int: a residual of exactly 0x04103F
\* is not written (`<` instead of `min`).
RECURSIVE write_extended_variable_int_drop(_, _)
write_extended_variable_int_drop(v, out) ==
    IF ~(0 < v) THEN out
    ELSE LET write_value == IF v < VARIABLE_INT_MAX THEN v ELSE VARIABLE_INT_MAX IN
         IF v = VARIABLE_INT_MAX THEN out
         ELSE write_extended_variable_int_drop(v - write_value,
                    out \o write_variable_int(write_value).bytes)

\* write_extended_variable_int: `while 0 < value` writes min(value, 0x04103F)
\* as a variable int and subtracts it; zero writes nothing.
RECURSIVE write_extended_variable_int(_, _)
write_extended_variable_int(v, out) ==
    IF ~(0 < v) THEN out
    ELSE LET write_value == IF v < VARIABLE_INT_MAX THEN v ELSE VARIABLE_INT_MAX IN
         write_extended_variable_int(v - write_value,
                    out \o write_variable_int(write_value).bytes)

\* read_extended_variable_int: peek a data byte; 0x00 returns, a failed peek
\* (end of stream, status byte) leaves the loop, anything else adds one
\* variable int, whose own ValueError is not caught.
RECURSIVE read_extended_variable_int(_, _, _)
read_extended_variable_int(s, pos, acc) ==
    LET p == peek_data_byte(s, pos) IN
    IF ~p.ok THEN [ok |-> TRUE, value |-> acc, pos |-> pos]
    ELSE IF p.byte = 0 THEN [ok |-> TRUE, value |-> acc, pos |-> pos]
    ELSE LET r == read_variable_int(s, pos) IN
         IF ~r.ok THEN [ok |-> FALSE, value |-> 0, pos |-> r.pos]
         ELSE read_extended_variable_int(s, r.pos, acc + r.value)

(***************************************************************************)
(* okd_file_scramble.py                                                    *)
(***************************************************************************)
\* OKD_SCRAMBLE_PATTERN: 256 fixed 16-bit patterns, index 0 .. 255.  The
\* table itself (okd_scramble_pattern.py) is not among the sources; these
\* are 256 pairwise distinct 16-bit stand-ins.
OKD_SCRAMBLE_PATTERN(i) == (i * 25173 + 13849) % 65536

\* `length is None`
None == -1

NoScramble == [ok |-> FALSE, out |-> <<>>, index |-> 0]

\* int.from_bytes(buffer, "big") for a two-byte buffer
FromBytes2(hi, lo) == hi * 256 + lo

\* int.to_bytes(2, "big")
ToBytes2(w) == <<w \div 256, w % 256>>

\* The `while` loop of scramble: two bytes at a time until the stream ends
\* (length None) or `length` bytes were read; an empty read before that is
\* the RuntimeError, a one-byte read the ValueError.
RECURSIVE scramble_loop(_, _, _, _, _)
scramble_loop(input, pos, index, len, out) ==
    IF len # None /\ ~(pos < len) THEN [ok |-> TRUE, out |-> out, index |-> index % 256]
    ELSE IF pos >= Len(input)
         THEN (IF len = None THEN [ok |-> TRUE, out |-> out, index |-> index % 256]
               ELSE [ok |-> FALSE, out |-> out, index |-> index % 256])
    ELSE IF Len(input) - pos < 2 THEN [ok |-> FALSE, out |-> out, index |-> index % 256]
    ELSE LET plaintext == FromBytes2(input[pos + 1], input[pos + 2])
             scramble_pattern == OKD_SCRAMBLE_PATTERN(index % 256)
             scrambled_word == BitXor(plaintext, scramble_pattern)
         IN  scramble_loop(input, pos + 2, index + 1, len, out \o ToBytes2(scrambled_word))

\* scramble(input_stream, output_stream, scramble_pattern_index, length)
\* from position 0 of the input: an odd length is refused at once.
scramble(input, index, len) ==
    IF len # None /\ len % 2 # 0 THEN NoScramble
    ELSE scramble_loop(input, 0, index, len, <<>>)

\* Mutant of descramble_loop: the pattern index is not advanced.
RECURSIVE descramble_loop_fixed_index(_, _, _, _, _)
descramble_loop_fixed_index(input, pos, index, len, out) ==
    IF len # None /\ ~(pos < len) THEN [ok |-> TRUE, out |-> out, index |-> index % 256]
    ELSE IF pos >= Len(input)
         THEN (IF len = None THEN [ok |-> TRUE, out |-> out, index |-> index % 256]
               ELSE [ok |-> FALSE, out |-> out, index |-> index % 256])
    ELSE IF Len(input) - pos < 2 THEN [ok |-> FALSE, out |-> out, index |-> index % 256]
    ELSE LET scrambled_word == FromBytes2(input[pos + 1], input[pos + 2])
             scramble_pattern == OKD_SCRAMBLE_PATTERN(index % 256)
             plaintext == BitXor(scrambled_word, scramble_pattern)
         IN  descramble_loop_fixed_index(input, pos + 2, index, len, out \o ToBytes2(plaintext))

\* The `while` loop of descramble, the same loop as scramble's.
RECURSIVE descramble_loop(_, _, _, _, _)
descramble_loop(input, pos, index, len, out) ==
    IF len # None /\ ~(pos < len) THEN [ok |-> TRUE, out |-> out, index |-> index % 256]
    ELSE IF pos >= Len(input)
         THEN (IF len = None THEN [ok |-> TRUE, out |-> out, index |-> index % 256]
               ELSE [ok |-> FALSE, out |-> out, index |-> index % 256])
    ELSE IF Len(input) - pos < 2 THEN [ok |-> FALSE, out |-> out, index |-> index % 256]
    ELSE LET scrambled_word == FromBytes2(input[pos + 1], input[pos + 2])
             scramble_pattern == OKD_SCRAMBLE_PATTERN(index % 256)
             plaintext == BitXor(scrambled_word, scramble_pattern)
         IN  descramble_loop(input, pos + 2, index + 1, len, out \o ToBytes2(plaintext))

\* descramble(input_stream, output_stream, scramble_pattern_index, length)
descramble(input, index, len) ==
    IF len # None /\ len % 2 # 0 THEN NoScramble
    ELSE descramble_loop(input, 0, index, len, <<>>)

\* The scramble codec was not called.
IdleScramble ==
    /\ scramble_pattern_index = 0
    /\ length = None
    /\ plaintext_buffer = <<>>
    /\ scrambled = NoScramble
    /\ descrambled = NoScramble

othersScramble == <<varsVarInt, varsPTrack, varsChunk, varsOkdFile, varsUtils>>

(***************************************************************************)
(* chunks/p_track_chunk.py, chunks/p_track_info_chunk.py                   *)
(***************************************************************************)
PORTS == 4

CHANNELS_PER_PORT == 16

\* PTrackInfoEntry.is_lossless_track
is_lossless_track(entry) == BitAnd(entry.track_status, 128) = 128

\* PTrackAbsoluteTimeEvent(status_byte, data_bytes, port, track, time)
PTrackAbsoluteTimeEvent(status_byte, data_bytes, port, track, time) ==
    [status_byte |-> status_byte, data_bytes |-> data_bytes,
     port |-> port, track |-> track, time |-> time]

\* Mutant of relocate_system_message: the destination track is the port
\* number, not the first track of the port.
RECURSIVE relocate_system_message_track_is_port(_, _, _, _, _)
relocate_system_message_track_is_port(entry, status_byte, data_bytes, time, port) ==
    IF port = PORTS THEN <<>>
    ELSE (IF BitAnd(Shr(entry.system_ex_ports, port), 1) # 1 THEN <<>>
          ELSE <<PTrackAbsoluteTimeEvent(status_byte, data_bytes, port, port, time)>>)
         \o relocate_system_message_track_is_port(entry, status_byte, data_bytes, time, port + 1)

\* __relocate_event, `if status_type == 0xF0`: one event per port of
\* system_ex_ports, on track port * 16, from `port` upwards.
RECURSIVE relocate_system_message(_, _, _, _, _)
relocate_system_message(entry, status_byte, data_bytes, time, port) ==
    IF port = PORTS THEN <<>>
    ELSE (IF BitAnd(Shr(entry.system_ex_ports, port), 1) # 1 THEN <<>>
          ELSE <<PTrackAbsoluteTimeEvent(status_byte, data_bytes, port,
                                         port * CHANNELS_PER_PORT, time)>>)
         \o relocate_system_message(entry, status_byte, data_bytes, time, port + 1)

\* Mutant of fill_default_channel_group: a zero default is left zero.
fill_default_channel_group_unfilled(entry, channel) ==
    entry.default_channel_groups[channel]

\* __relocate_event, "Fill default channel group"
fill_default_channel_group(entry, channel) ==
    LET default_channel_group == entry.default_channel_groups[channel] IN
    IF default_channel_group = 0 THEN Shl(1, channel) ELSE default_channel_group

\* __relocate_event, the inner `for grouped_channel in range(16)` of one port
RECURSIVE relocate_grouped_channels(_, _, _, _, _, _, _, _)
relocate_grouped_channels(entry, status_type, channel, data_bytes, time, group_channel, port, grouped_channel) ==
    IF grouped_channel = CHANNELS_PER_PORT THEN <<>>
    ELSE LET mask == IF group_channel THEN entry.channel_groups[channel]
                     ELSE fill_default_channel_group(entry, channel)
         IN  (IF BitAnd(Shr(mask, grouped_channel), 1) # 1 THEN <<>>
              ELSE <<PTrackAbsoluteTimeEvent(BitOr(status_type, grouped_channel), data_bytes,
                        port, (port * CHANNELS_PER_PORT) + grouped_channel, time)>>)
             \o relocate_grouped_channels(entry, status_type, channel, data_bytes, time,
                                          group_channel, port, grouped_channel + 1)

\* Mutant of relocate_channel_message: the loop walks the eight bits of the
\* ports byte instead of the PORTS ports.
RECURSIVE relocate_channel_message_every_bit(_, _, _, _, _, _, _)
relocate_channel_message_every_bit(entry, status_type, channel, data_bytes, time, group_channel, port) ==
    IF port = 8 THEN <<>>
    ELSE (IF BitAnd(Shr(entry.channel_info[channel].ports, port), 1) # 1 THEN <<>>
          ELSE relocate_grouped_channels(entry, status_type, channel, data_bytes, time,
                                         group_channel, port, 0))
         \o relocate_channel_message_every_bit(entry, status_type, channel, data_bytes, time,
                                               group_channel, port + 1)

\* __relocate_event, the outer `for port in range(PORTS)` of a channel message
RECURSIVE relocate_channel_message(_, _, _, _, _, _, _)
relocate_channel_message(entry, status_type, channel, data_bytes, time, group_channel, port) ==
    IF port = PORTS THEN <<>>
    ELSE (IF BitAnd(Shr(entry.channel_info[channel].ports, port), 1) # 1 THEN <<>>
          ELSE relocate_grouped_channels(entry, status_type, channel, data_bytes, time,
                                         group_channel, port, 0))
         \o relocate_channel_message(entry, status_type, channel, data_bytes, time,
                                     group_channel, port + 1)

\* Mutant of relocate_event: the 0xFE compensation is not unwrapped, the
\* event is routed as the system message it looks like.
relocate_event_no_compensation(entry, status_byte, data_bytes, time, group_channel) ==
    IF BitAnd(status_byte, 240) = 240
    THEN relocate_system_message(entry, status_byte, data_bytes, time, 0)
    ELSE relocate_channel_message(entry, BitAnd(status_byte, 240), BitAnd(status_byte, 15),
                                  data_bytes, time, group_channel, 0)

\* PTrackChunk.__relocate_event: a 0xFE event is first replaced by the
\* message it wraps (its first data byte is the status byte).
relocate_event(entry, status_byte, data_bytes, time, group_channel) ==
    LET compensation == status_byte = 254
        status_byte_1 == IF compensation THEN data_bytes[1] ELSE status_byte
        data_bytes_1 == IF compensation THEN Tail(data_bytes) ELSE data_bytes
        status_type == BitAnd(status_byte_1, 240)
    IN  IF status_type = 240
        THEN relocate_system_message(entry, status_byte_1, data_bytes_1, time, 0)
        ELSE relocate_channel_message(entry, status_type, BitAnd(status_byte_1, 15),
                                      data_bytes_1, time, group_channel, 0)

\* One __relocate_event call with its arguments and what it returned.
RelocateCall(entry, status_byte, data_bytes, time, group_channel) ==
    [status_byte |-> status_byte, data_bytes |-> data_bytes, time |-> time,
     group_channel |-> group_channel,
     relocated_events |-> relocate_event(entry, status_byte, data_bytes, time, group_channel)]

\* Mutant of shifted_duration: the duration is shifted on lossless tracks
\* too.
shifted_duration_always(entry, duration) == Shl(duration, 2)

\* absolute_time_track: `if not is_lossless_track: duration <<= 2`
shifted_duration(entry, duration) ==
    IF ~is_lossless_track(entry) THEN Shl(duration, 2) ELSE duration

\* absolute_time_track: the __relocate_event calls of one loop iteration,
\* by the type of the stored event.
event_relocate_calls(entry, event, time, group_channel) ==
    LET status_type == BitAnd(event.status_byte, 240)
        channel == BitAnd(event.status_byte, 15)
    IN  IF status_type = 128
        THEN <<RelocateCall(entry, BitOr(144, channel),
                    <<event.data_bytes[1], event.data_bytes[2]>>, time, group_channel),
               RelocateCall(entry, BitOr(128, channel),
                    <<event.data_bytes[1], event.data_bytes[3]>>,
                    time + shifted_duration(entry, event.duration), group_channel)>>
        ELSE IF status_type = 144
        THEN <<RelocateCall(entry, event.status_byte, event.data_bytes, time, group_channel),
               RelocateCall(entry, BitOr(128, channel), <<event.data_bytes[1], 64>>,
                    time + shifted_duration(entry, event.duration), group_channel)>>
        ELSE IF status_type = 160
        THEN <<RelocateCall(entry, BitOr(176, channel),
                    <<entry.channel_info[channel].control_change_ax, event.data_bytes[1]>>,
                    time, group_channel)>>
        ELSE IF status_type = 192
        THEN <<RelocateCall(entry, BitOr(176, channel),
                    <<entry.channel_info[channel].control_change_cx, event.data_bytes[1]>>,
                    time, group_channel)>>
        ELSE <<RelocateCall(entry, event.status_byte, event.data_bytes, time, group_channel)>>

\* Mutant of next_channel_grouping_enabled: grouping, once enabled, stays.
next_channel_grouping_enabled_sticky(enabled, event) ==
    enabled \/ event.status_byte = 253

\* absolute_time_track: `channel_grouping_enabled = event.status_byte == 0xFD`
next_channel_grouping_enabled(enabled, event) == event.status_byte = 253

\* `absolute_time_track += ...` for every call of the iteration
RECURSIVE RelocatedEvents(_)
RelocatedEvents(calls) ==
    IF calls = <<>> THEN <<>>
    ELSE Head(calls).relocated_events \o RelocatedEvents(Tail(calls))

\* list.sort(key=time) is stable: an event goes behind every event that is
\* not later than it.
RECURSIVE InsertByTime(_, _)
InsertByTime(sorted, e) ==
    IF sorted = <<>> THEN <<e>>
    ELSE IF sorted[Len(sorted)].time <= e.time THEN Append(sorted, e)
    ELSE Append(InsertByTime(SubSeq(sorted, 1, Len(sorted) - 1), e), sorted[Len(sorted)])

RECURSIVE SortByTime(_, _)
SortByTime(sorted, rest) ==
    IF rest = <<>> THEN sorted
    ELSE SortByTime(InsertByTime(sorted, Head(rest)), Tail(rest))

\* PTrackChunk.track_number() of the chunk whose events are walked: id[3].
PTrackNumber == 1

\* absolute_time_track: the first entry with the chunk's track number, or
\* none.
FindTrackInfoEntry(list) ==
    LET found == {i \in 1 .. Len(list) : list[i].track_number = PTrackNumber} IN
    IF found = {} THEN <<>>
    ELSE <<list[CHOOSE i \in found : \A j \in found : i <= j]>>

\* absolute_time_track was not called.
IdlePTrack ==
    /\ track_info_list = <<>>
    /\ events = <<>>
    /\ event_index = 0
    /\ absolute_time = 0
    /\ channel_grouping_enabled = FALSE
    /\ absolute_time_track = <<>>
    /\ relocate_calls = <<>>

othersPTrack == <<varsVarInt, varsScramble, varsChunk, varsOkdFile, varsUtils>>

(***************************************************************************)
(* SpecVarInt: write_variable_int(value) into an empty stream, the trailer *)
(* appended behind it, then read_variable_int from position 0.             *)
(***************************************************************************)
\* How far above VARIABLE_INT_MAX the inputs of the writer reach (the
\* writer's "Too big argument" branch).
MaxOverflow == 2

\* Bytes that may follow a written integer: nothing, a data byte with the
\* continuation bit, a status byte.
Trailers == {<<>>, <<127>>, <<144>>}

\* Every value below DenseRange is an input (all one- and two-byte forms lie
\* below 0x1040 = 4160).
DenseRange == 4200

\* Byte patterns of the first two bytes of the three-byte forms.
ByteSamples == {0, 1, 62, 63, 64, 65, 126, 127}

\* Inputs of the writer: the dense range, the three-byte forms b0 b1 b2 with
\* b0, b1 sampled and every b2, and the values just above the maximum.
VarIntValues ==
    (0 .. DenseRange)
    \cup {b0 + 64 * b1 + 4096 * b2 : b0 \in ByteSamples, b1 \in ByteSamples, b2 \in 0 .. 63}
    \cup ((VARIABLE_INT_MAX - 2) .. (VARIABLE_INT_MAX + MaxOverflow))

NoValue == [ok |-> FALSE, value |-> 0, pos |-> 0]

\* The variable-int codec was not called.
IdleVarInt ==
    /\ value = 0
    /\ trailer = <<>>
    /\ stream = <<>>
    /\ position = 0
    /\ read_value = NoValue

othersVarInt == <<varsScramble, varsPTrack, varsChunk, varsOkdFile, varsUtils>>

InitVarInt ==
    /\ pc = "write"
    /\ value \in VarIntValues
    /\ trailer \in Trailers
    /\ stream = <<>>
    /\ position = 0
    /\ read_value = NoValue
    /\ IdleScramble
    /\ IdlePTrack
    /\ IdleOkd
    /\ IdleUtils

\* write_variable_int(stream, value) on a fresh stream; the caller then
\* appends the trailer and rewinds.
WriteVariableInt ==
    /\ pc = "write"
    /\ LET w == write_variable_int(value) IN
        /\ pc' = IF w.ok THEN "read" ELSE "write_error"
        /\ stream' = w.bytes \o trailer
    /\ position' = 0
    /\ UNCHANGED <<value, trailer, read_value, othersVarInt>>

\* read_variable_int(stream)
ReadVariableInt ==
    /\ pc = "read"
    /\ LET r == read_variable_int(stream, position) IN
        /\ read_value' = r
        /\ position' = r.pos
        /\ pc' = IF r.ok THEN "done" ELSE "read_error"
    /\ UNCHANGED <<value, trailer, stream, othersVarInt>>

NextVarInt == WriteVariableInt \/ ReadVariableInt

SpecVarInt == InitVarInt /\ [][NextVarInt]_vars

\* C3: for every v in [0, 0x04103F], read_variable_int applied to the bytes
\* of write_variable_int(v) returns v and consumes exactly the written
\* bytes (the position stops in front of the trailer).
C3_VarIntRoundTrip ==
    /\ (pc = "read" /\ value <= VARIABLE_INT_MAX) =>
            Len(stream) - Len(trailer) \in 1 .. 3
    /\ (pc \in {"done", "read_error"} /\ value <= VARIABLE_INT_MAX) =>
            /\ pc = "done"
            /\ read_value.value = value
            /\ position = Len(stream) - Len(trailer)
    /\ (pc = "write_error") => value > VARIABLE_INT_MAX

\* C3 witness: the largest encodable value was written as three bytes and
\* read back in front of a data-byte trailer.
C3_Witness ==
    /\ pc = "done"
    /\ value = VARIABLE_INT_MAX
    /\ trailer = <<127>>
    /\ Len(stream) = 4
    /\ position = 3

(***************************************************************************)
(* SpecVarIntRead: read_variable_int on byte sequences that no writer      *)
(* produced.                                                               *)
(***************************************************************************)
\* Longest raw sequence handed to the reader.
MaxRawLen == 4

RawBytes == ByteSamples \cup {128, 255}

RECURSIVE SeqsOver(_, _)
SeqsOver(S, n) ==
    IF n = 0 THEN {<<>>}
    ELSE LET shorter == SeqsOver(S, n - 1) IN
         shorter \cup {Append(q, b) : q \in {t \in shorter : Len(t) = n - 1}, b \in S}

\* Every sequence of at most two data bytes, and the sampled bytes up to
\* MaxRawLen.
RawStreams == SeqsOver(0 .. 127, 2) \cup SeqsOver(RawBytes, MaxRawLen)

InitVarIntRead ==
    /\ pc = "read"
    /\ value = 0
    /\ trailer = <<>>
    /\ stream \in RawStreams
    /\ position = 0
    /\ read_value = NoValue
    /\ IdleScramble
    /\ IdlePTrack
    /\ IdleOkd
    /\ IdleUtils

NextVarIntRead == ReadVariableInt

SpecVarIntRead == InitVarIntRead /\ [][NextVarIntRead]_vars

\* The stream starts with a well-formed variable int of n bytes: bit 7 clear
\* in every byte, bit 6 set in every byte except the last.
WellFormedVarInt(s, n) ==
    /\ n \in 1 .. 3
    /\ n <= Len(s)
    /\ \A i \in 1 .. n : s[i] < 128
    /\ \A i \in 1 .. (n - 1) : (s[i] \div 64) % 2 = 1
    /\ (s[n] \div 64) % 2 = 0

RECURSIVE SumLow6(_, _)
SumLow6(s, n) == IF n = 0 THEN 0 ELSE SumLow6(s, n - 1) + (s[n] % 64) * (64 ^ (n - 1))

RECURSIVE SumBytes(_, _)
SumBytes(s, n) == IF n = 0 THEN 0 ELSE SumBytes(s, n - 1) + s[n] * (64 ^ (n - 1))

\* C5 as stated: read_variable_int of a well-formed sequence b0..bn returns
\* the sum of (b_i & 0x3F) * 64^i.
C5_SumOfLowSixBits ==
    \A n \in 1 .. 3 :
        (pc # "read" /\ WellFormedVarInt(stream, n)) =>
            (pc = "done" /\ read_value.value = SumLow6(stream, n))

\* C5 amended: read_variable_int of a well-formed sequence b0..bn succeeds,
\* consumes its n bytes and returns the sum of b_i * 64^i, the whole byte
\* with its continuation bit, so that every continuation byte i adds 64^(i+1)
\* to the sum of the low six bits.
C5_SumOfWholeBytes ==
    \A n \in 1 .. 3 :
        (pc # "read" /\ WellFormedVarInt(stream, n)) =>
            /\ pc = "done"
            /\ position = n
            /\ read_value.value = SumBytes(stream, n)
            /\ read_value.value =
                  SumLow6(stream, n) + (IF n >= 2 THEN 64 ELSE 0) + (IF n = 3 THEN 4096 ELSE 0)

\* C5 witness: 7F 3F was read as 0x103F (the low six bits alone give 0x0FFF).
C5_Witness ==
    /\ pc = "done"
    /\ stream = <<127, 63>>
    /\ read_value.value = 4159

(***************************************************************************)
(* SpecExtVarInt: write_extended_variable_int(value), the trailer behind   *)
(* it, then read_extended_variable_int from position 0.                    *)
(***************************************************************************)
\* Longest chain: values reach MaxChain full variable ints plus a residual.
MaxChain == 3

\* Every value up to ExtDenseRange is an input.
ExtDenseRange == 200

ExtResiduals == {0, 1, 63, 64, 65, 4095, 4096, 4159, 4160, 262144, VARIABLE_INT_MAX - 1}

ExtValues ==
    (0 .. ExtDenseRange)
    \cup {k * VARIABLE_INT_MAX + r : k \in 0 .. MaxChain, r \in ExtResiduals}

END_OF_TRACK_MARK == <<0, 0, 0, 0>>

\* What follows a delta time in a track: the end of the payload, a status
\* byte, the end-of-track mark.
ExtTrailers == {<<>>, <<128>>, <<255, 0>>, END_OF_TRACK_MARK}

InitExtVarInt ==
    /\ pc = "write_ext"
    /\ value \in ExtValues
    /\ trailer \in ExtTrailers
    /\ stream = <<>>
    /\ position = 0
    /\ read_value = NoValue
    /\ IdleScramble
    /\ IdlePTrack
    /\ IdleOkd
    /\ IdleUtils

\* write_extended_variable_int(stream, value) on a fresh stream; the caller
\* then appends the trailer and rewinds.
WriteExtendedVariableInt ==
    /\ pc = "write_ext"
    /\ stream' = write_extended_variable_int(value, <<>>) \o trailer
    /\ position' = 0
    /\ pc' = "read_ext"
    /\ UNCHANGED <<value, trailer, read_value, othersVarInt>>

\* read_extended_variable_int(stream)
ReadExtendedVariableInt ==
    /\ pc = "read_ext"
    /\ LET r == read_extended_variable_int(stream, position, 0) IN
        /\ read_value' = r
        /\ position' = r.pos
        /\ pc' = IF r.ok THEN "done" ELSE "read_error"
    /\ UNCHANGED <<value, trailer, stream, othersVarInt>>

NextExtVarInt == WriteExtendedVariableInt \/ ReadExtendedVariableInt

SpecExtVarInt == InitExtVarInt /\ [][NextExtVarInt]_vars

\* C4: read_extended_variable_int applied to the bytes of
\* write_extended_variable_int(v), followed by a status byte, the
\* end-of-track mark or the end of the stream, returns v and stops on the
\* first byte after the written bytes.
C4_ExtVarIntRoundTrip ==
    (pc \in {"done", "read_error"}) =>
        /\ pc = "done"
        /\ read_value.value = value
        /\ position = Len(stream) - Len(trailer)

\* C4 witness: a value above 0x04103F whose last variable int is 0x40
\* (bytes 40 00) was read back in front of the end-of-track mark.
C4_Witness ==
    /\ pc = "done"
    /\ value = 2 * VARIABLE_INT_MAX + 64
    /\ trailer = END_OF_TRACK_MARK
    /\ Len(stream) = 12
    /\ position = 8
    /\ read_value.value = value

(***************************************************************************)
(* SpecScramble: scramble(plaintext_buffer, k, length), then descramble of *)
(* its output with the same start index and length.                        *)
(***************************************************************************)
\* Longest buffer, in bytes.
MaxBufferLen == 4

BufferBytes == {0, 165}

InitScramble ==
    /\ pc = "scramble"
    /\ scramble_pattern_index \in 0 .. 255
    /\ plaintext_buffer \in SeqsOver(BufferBytes, MaxBufferLen)
    /\ length \in {None, 1, Len(plaintext_buffer), Len(plaintext_buffer) + 2}
    /\ scrambled = NoScramble
    /\ descrambled = NoScramble
    /\ IdleVarInt
    /\ IdlePTrack
    /\ IdleOkd
    /\ IdleUtils

\* scramble(input_stream, output_stream, scramble_pattern_index, length)
Scramble ==
    /\ pc = "scramble"
    /\ LET r == scramble(plaintext_buffer, scramble_pattern_index, length) IN
        /\ scrambled' = r
        /\ pc' = IF r.ok THEN "descramble" ELSE "scramble_error"
    /\ UNCHANGED <<scramble_pattern_index, length, plaintext_buffer, descrambled, othersScramble>>

\* descramble(input_stream, output_stream, scramble_pattern_index, length)
\* on the scrambled bytes.
Descramble ==
    /\ pc = "descramble"
    /\ LET r == descramble(scrambled.out, scramble_pattern_index, length) IN
        /\ descrambled' = r
        /\ pc' = IF r.ok THEN "done" ELSE "descramble_error"
    /\ UNCHANGED <<scramble_pattern_index, length, plaintext_buffer, scrambled, othersScramble>>

NextScramble == Scramble \/ Descramble

SpecScramble == InitScramble /\ [][NextScramble]_vars

\* The whole of an even-length buffer is transformed: no length, or its own.
WholeEvenBuffer ==
    /\ Len(plaintext_buffer) % 2 = 0
    /\ length \in {None, Len(plaintext_buffer)}

\* C6: for every start index k and every even-length buffer b, scramble
\* succeeds with an output as long as b, descramble of that output with k
\* gives b back, and both return the final index (k + len(b)/2) mod 256.
C6_ScrambleRoundTrip ==
    WholeEvenBuffer =>
        /\ pc \notin {"scramble_error", "descramble_error"}
        /\ (pc \in {"descramble", "done"}) =>
                /\ Len(scrambled.out) = Len(plaintext_buffer)
                /\ scrambled.index =
                      (scramble_pattern_index + Len(plaintext_buffer) \div 2) % 256
        /\ (pc = "done") =>
                /\ descrambled.out = plaintext_buffer
                /\ descrambled.index = scrambled.index

\* C6 witness: a four-byte buffer scrambled from index 255 (the index wraps
\* to 1), changed by the scrambling and restored by descramble.
C6_Witness ==
    /\ pc = "done"
    /\ scramble_pattern_index = 255
    /\ Len(plaintext_buffer) = 4
    /\ length = None
    /\ scrambled.out # plaintext_buffer
    /\ descrambled.out = plaintext_buffer
    /\ descrambled.index = 1

(***************************************************************************)
(* SpecPTrack: PTrackChunk.absolute_time_track(track_info) over a list of  *)
(* stored events, one loop iteration per step; the sort closes the last.   *)
(***************************************************************************)
\* Longest list of stored events.
MaxEvents == 3

\* An info entry whose per-channel fields differ between channel 0, channel
\* 14, the other even and the odd channels.
MakeEntry(track_number, track_status, ports_even, ports_odd, default_0, default_14, group_0, group_14, system_ex_ports) ==
    [track_number |-> track_number,
     track_status |-> track_status,
     default_channel_groups |->
        [c \in 0 .. 15 |-> IF c = 0 THEN default_0 ELSE IF c = 14 THEN default_14 ELSE 0],
     channel_groups |->
        [c \in 0 .. 15 |-> IF c = 0 THEN group_0 ELSE IF c = 14 THEN group_14 ELSE 0],
     channel_info |->
        [c \in 0 .. 15 |->
            [ports |-> IF c % 2 = 0 THEN ports_even ELSE ports_odd,
             control_change_ax |-> 16 + c,
             control_change_cx |-> 32 + c]],
     system_ex_ports |-> system_ex_ports]

\* Info entries: as p_track_info_chunk_by_p_track_chunks builds them (one
\* port, no groups), with groups on a lossless track, with mask bits above
\* the ports and with every port, without any port, and one of another
\* track.
TrackInfoEntries ==
    {MakeEntry(1, 64, 1, 2, 0, 0, 5, 0, 1),
     MakeEntry(1, 192, 5, 10, 6, 32769, 3, 16384, 5),
     MakeEntry(1, 0, 242, 0, 0, 1, 0, 49152, 65528),
     MakeEntry(1, 128, 15, 1, 32768, 0, 1, 2, 10),
     MakeEntry(1, 64, 0, 0, 0, 0, 0, 0, 0)}

\* The entry of another track.
OtherTrackEntry == MakeEntry(2, 64, 1, 1, 0, 0, 0, 0, 1)

\* Info chunks: one entry of the chunk's track, alone or behind the entry
\* of another track.
TrackInfoLists ==
    {<<entry>> : entry \in TrackInfoEntries \ {MakeEntry(1, 64, 1, 2, 0, 0, 5, 0, 1)}}
    \cup {<<OtherTrackEntry, MakeEntry(1, 64, 1, 2, 0, 0, 5, 0, 1)>>}

PTrackEvent(status_byte, data_bytes, delta_time, duration) ==
    [status_byte |-> status_byte, data_bytes |-> data_bytes,
     delta_time |-> delta_time, duration |-> duration]

\* Stored events as PTrackEvent.read returns them: notes with a duration,
\* alternative CCs, plain channel messages, the system messages.
StoredEvents ==
    {PTrackEvent(144, <<60, 100>>, 0, 100),
     PTrackEvent(142, <<62, 90, 33>>, 10, 5),
     PTrackEvent(160, <<7>>, 0, None),
     PTrackEvent(206, <<9>>, 2, None),
     PTrackEvent(177, <<7, 100>>, 3, None),
     PTrackEvent(253, <<>>, 0, None),
     PTrackEvent(240, <<67, 247>>, 1, None),
     PTrackEvent(254, <<161, 1, 2>>, 0, None),
     PTrackEvent(248, <<1, 2, 3>>, 4, None),
     PTrackEvent(250, <<5>>, 0, None)}

InitPTrack ==
    /\ pc = "absolute_time_track"
    /\ \/ /\ track_info_list \in TrackInfoLists
          /\ events \in SeqsOver(StoredEvents, MaxEvents)
       \/ /\ track_info_list = <<OtherTrackEntry>>
          /\ events \in SeqsOver(StoredEvents, 1)
    /\ event_index = 0
    /\ absolute_time = 0
    /\ channel_grouping_enabled = FALSE
    /\ absolute_time_track = <<>>
    /\ relocate_calls = <<>>
    /\ IdleVarInt
    /\ IdleScramble
    /\ IdleOkd
    /\ IdleUtils

\* absolute_time_track: no entry of the chunk's track number.
TrackInfoNotFound ==
    /\ pc = "absolute_time_track"
    /\ FindTrackInfoEntry(track_info_list) = <<>>
    /\ pc' = "track_info_error"
    /\ UNCHANGED <<varsPTrack, othersPTrack>>

\* absolute_time_track of a chunk without events: the empty list, sorted.
AbsoluteTimeTrackEmpty ==
    /\ pc = "absolute_time_track"
    /\ FindTrackInfoEntry(track_info_list) # <<>>
    /\ events = <<>>
    /\ pc' = "done"
    /\ UNCHANGED <<varsPTrack, othersPTrack>>

\* One iteration of `for event in self.events`; the last one is followed by
\* the sort and the return.
AbsoluteTimeTrackEvent ==
    /\ pc = "absolute_time_track"
    /\ FindTrackInfoEntry(track_info_list) # <<>>
    /\ event_index < Len(events)
    /\ LET track_info_entry == FindTrackInfoEntry(track_info_list)[1]
           event == events[event_index + 1]
           time == absolute_time + event.delta_time
           calls == event_relocate_calls(track_info_entry, event, time,
                                         channel_grouping_enabled)
           appended == absolute_time_track \o RelocatedEvents(calls)
       IN  /\ absolute_time' = time
           /\ relocate_calls' = calls
           /\ channel_grouping_enabled' =
                    next_channel_grouping_enabled(channel_grouping_enabled, event)
           /\ event_index' = event_index + 1
           /\ IF event_index + 1 = Len(events)
              THEN /\ absolute_time_track' = SortByTime(<<>>, appended)
                   /\ pc' = "done"
              ELSE /\ absolute_time_track' = appended
                   /\ pc' = pc
    /\ UNCHANGED <<track_info_list, events, othersPTrack>>

NextPTrack == TrackInfoNotFound \/ AbsoluteTimeTrackEmpty \/ AbsoluteTimeTrackEvent

SpecPTrack == InitPTrack /\ [][NextPTrack]_vars

\* Bit i of mask m.
Bit(m, i) == (m \div (2 ^ i)) % 2 = 1

\* The info entry the walk uses, once absolute_time_track has found it.
EntryInUse == FindTrackInfoEntry(track_info_list)[1]

\* The stored event the last iteration handled, and its absolute time.
LastEvent == events[event_index]

RECURSIVE SumDeltaTime(_)
SumDeltaTime(n) == IF n = 0 THEN 0 ELSE SumDeltaTime(n - 1) + events[n].delta_time

\* The (port, channel) pairs a channel message of channel ch goes to.
Destinations(entry, ch, grouping) ==
    LET mask == IF grouping THEN entry.channel_groups[ch]
                ELSE IF entry.default_channel_groups[ch] = 0 THEN 2 ^ ch
                ELSE entry.default_channel_groups[ch]
    IN  {<<p, c>> \in (0 .. 3) \X (0 .. 15) :
            Bit(entry.channel_info[ch].ports, p) /\ Bit(mask, c)}

\* `emitted` holds exactly one event for each destination of a channel
\* message with the given status, data bytes and time, and nothing else.
FannedOut(emitted, entry, status, data, time, grouping) ==
    LET dest == Destinations(entry, status % 16, grouping) IN
    /\ Len(emitted) = Cardinality(dest)
    /\ \A d \in dest :
        \E i \in 1 .. Len(emitted) :
            emitted[i] = [status_byte |-> (status - (status % 16)) + d[2],
                          data_bytes |-> data, port |-> d[1],
                          track |-> d[1] * 16 + d[2], time |-> time]

\* `emitted` holds exactly one event for each port of system_ex_ports, on
\* track port * 16, with the given status, data bytes and time.
SentToSystemPorts(emitted, entry, status, data, time) ==
    LET ports == {p \in 0 .. 3 : Bit(entry.system_ex_ports, p)} IN
    /\ Len(emitted) = Cardinality(ports)
    /\ \A p \in ports :
        \E i \in 1 .. Len(emitted) :
            emitted[i] = [status_byte |-> status, data_bytes |-> data, port |-> p,
                          track |-> p * 16, time |-> time]

\* C7: a channel-voice event (status below 0xF0) relocated with an info
\* entry yields exactly one event per pair (p, c) with bit p of the
\* channel's ports and bit c of the group mask set (channel_groups[ch] when
\* grouping, else default_channel_groups[ch], 1 << ch when that is zero),
\* each with status (status & 0xF0) | c, track p*16 + c, the original data
\* bytes and time.
C7_ChannelFanOut ==
    \A k \in 1 .. Len(relocate_calls) :
        LET call == relocate_calls[k] IN
        call.status_byte < 240 =>
            FannedOut(call.relocated_events, EntryInUse, call.status_byte,
                      call.data_bytes, call.time, call.group_channel)

\* C7 witness: with grouping enabled by a preceding 0xFD, a note-on of
\* channel 0 went to two channels on each of two ports; another relocation
\* used the filled default group.
C7_Witness ==
    /\ event_index = 2
    /\ events[1].status_byte = 253
    /\ LastEvent.status_byte = 144
    /\ relocate_calls[1].group_channel
    /\ Len(relocate_calls[1].relocated_events) = 4
    /\ relocate_calls[1].relocated_events[4].track = 33

\* C8 as stated: every stored event with status & 0xF0 == 0xF0, 0xFE
\* included, yields exactly one event per port of system_ex_ports, on track
\* p*16, status byte and data bytes unchanged.
C8_SystemFanOutWithFE ==
    (event_index >= 1 /\ LastEvent.status_byte >= 240) =>
        SentToSystemPorts(RelocatedEvents(relocate_calls), EntryInUse,
                          LastEvent.status_byte, LastEvent.data_bytes,
                          SumDeltaTime(event_index))

\* C8 amended: every stored event with status & 0xF0 == 0xF0 other than
\* 0xFE yields exactly one event per port of system_ex_ports, on track p*16,
\* status byte and data bytes unchanged; a 0xFE event is relocated as the
\* channel-voice message it wraps: status byte its first data byte, data
\* bytes the rest, fanned out by the ports and group mask of that channel.
C8_SystemFanOut ==
    (event_index >= 1 /\ LastEvent.status_byte >= 240) =>
        IF LastEvent.status_byte # 254
        THEN SentToSystemPorts(RelocatedEvents(relocate_calls), EntryInUse,
                               LastEvent.status_byte, LastEvent.data_bytes,
                               SumDeltaTime(event_index))
        ELSE FannedOut(RelocatedEvents(relocate_calls), EntryInUse,
                       LastEvent.data_bytes[1], Tail(LastEvent.data_bytes),
                       SumDeltaTime(event_index),
                       event_index >= 2 /\ events[event_index - 1].status_byte = 253)

\* C8 witness: a SysEx at a time above zero went to ports 0 and 2, tracks 0
\* and 32.
C8_Witness ==
    /\ event_index >= 2
    /\ LastEvent.status_byte = 240
    /\ SumDeltaTime(event_index) > 1
    /\ Len(relocate_calls) = 1
    /\ Len(relocate_calls[1].relocated_events) = 2
    /\ relocate_calls[1].relocated_events[2].track = 32

\* C9: while the stored events are walked, grouping is enabled for an event
\* iff the event stored immediately before it is 0xFD: never for the first
\* event, and not beyond the event that follows a 0xFD.
C9_GroupingAfterFD ==
    /\ channel_grouping_enabled =
            (event_index >= 1 /\ events[event_index].status_byte = 253)
    /\ \A k \in 1 .. Len(relocate_calls) :
            relocate_calls[k].group_channel =
                (event_index >= 2 /\ events[event_index - 1].status_byte = 253)

\* C9 witness: the third event, two behind a 0xFD, was relocated without
\* grouping after the second was relocated with it.
C9_Witness ==
    /\ event_index = 3
    /\ events[1].status_byte = 253
    /\ events[2].status_byte # 253
    /\ Len(relocate_calls) >= 1
    /\ ~relocate_calls[1].group_channel
    /\ ~channel_grouping_enabled

\* The events of `emitted` are in absolute_time_track.
AllAppended(emitted) ==
    \A i \in 1 .. Len(emitted) :
        \E j \in 1 .. Len(absolute_time_track) : absolute_time_track[j] = emitted[i]

\* C10: a stored note event with duration d at time t expands to a note-on
\* and a note-off on the same destination tracks: 0x9n X Y to 0x9n X Y at t
\* and 0x8n X 0x40 at t + d', 0x8n X Y Z to 0x9n X Y at t and 0x8n X Z at
\* t + d', with d' = 4 * d unless bit 0x80 of track_status is set (d' = d).
C10_NoteExpansion ==
    (event_index >= 1 /\ LastEvent.status_byte \div 16 \in {8, 9}) =>
        LET e == LastEvent
            n == e.status_byte % 16
            t == SumDeltaTime(event_index)
            dd == IF Bit(EntryInUse.track_status, 7) THEN e.duration ELSE 4 * e.duration
            off_velocity == IF e.status_byte \div 16 = 9 THEN 64 ELSE e.data_bytes[3]
            grouping == event_index >= 2 /\ events[event_index - 1].status_byte = 253
            on == relocate_calls[1].relocated_events
            off == relocate_calls[2].relocated_events
        IN  /\ Len(relocate_calls) = 2
            /\ FannedOut(on, EntryInUse, 144 + n, <<e.data_bytes[1], e.data_bytes[2]>>,
                         t, grouping)
            /\ FannedOut(off, EntryInUse, 128 + n, <<e.data_bytes[1], off_velocity>>,
                         t + dd, grouping)
            /\ {on[i].track : i \in 1 .. Len(on)} = {off[i].track : i \in 1 .. Len(off)}
            /\ AllAppended(on)
            /\ AllAppended(off)

\* C10 witness: 90 3C 64 with duration 100 on a track that is not lossless
\* gave a note-on at t and the note-off 80 3C 40 at t + 400.
C10_Witness ==
    /\ pc = "done"
    /\ event_index >= 1
    /\ LastEvent = PTrackEvent(144, <<60, 100>>, 0, 100)
    /\ ~Bit(EntryInUse.track_status, 7)
    /\ Len(relocate_calls[1].relocated_events) >= 1
    /\ relocate_calls[2].relocated_events[1].status_byte = 128
    /\ relocate_calls[2].relocated_events[1].data_bytes = <<60, 64>>
    /\ relocate_calls[2].relocated_events[1].time = SumDeltaTime(event_index) + 400

\* The destination of an emitted event is a track of a port.
InRange(e) == e.track \in 0 .. (PORTS * CHANNELS_PER_PORT) - 1 /\ e.port \in 0 .. PORTS - 1

\* C11: every event absolute_time_track returns, and every event a
\* __relocate_event call returned on the way, has a destination track index
\* in [0, 64) and a port in [0, 4), whatever bits the masks of the info entry
\* have above the low four or sixteen.
C11_TrackIndexInRange ==
    /\ \A j \in 1 .. Len(absolute_time_track) : InRange(absolute_time_track[j])
    /\ \A k \in 1 .. Len(relocate_calls) :
        \A i \in 1 .. Len(relocate_calls[k].relocated_events) :
            InRange(relocate_calls[k].relocated_events[i])

\* C11 witness: the entry whose ports and system_ex_ports masks have bits
\* above the low four (0xF2, 0xFFF8) and a group mask 0xC000 was used, and
\* the returned list has an event on the last track of port 1 and a system
\* message on port 3.
C11_Witness ==
    /\ pc = "done"
    /\ EntryInUse.channel_info[0].ports = 242
    /\ EntryInUse.system_ex_ports = 65528
    /\ \E j \in 1 .. Len(absolute_time_track) :
        absolute_time_track[j].track = 31 /\ absolute_time_track[j].port = 1
    /\ \E j \in 1 .. Len(absolute_time_track) :
        absolute_time_track[j].track = 48 /\ absolute_time_track[j].port = 3

(***************************************************************************)
(* chunks: chunk_base.py, generic_chunk.py, adpcm_chunk.py,                *)
(* m_track_chunk.py, p_track_chunk.py, chunks/utils.py                     *)
(***************************************************************************)
\* stream.read(n) at position pos: at most n bytes, fewer at the end.
Read(s, pos, n) == SubSeq(s, pos + 1, IF pos + n < Len(s) THEN pos + n ELSE Len(s))

\* stream.seek(offset, os.SEEK_CUR) on the io.BytesIO of a payload: a
\* position below zero becomes zero.
SeekCur(pos, offset) == IF pos + offset < 0 THEN 0 ELSE pos + offset

\* int.from_bytes(buffer, "big")
RECURSIVE FromBytes(_)
FromBytes(buffer) ==
    IF buffer = <<>> THEN 0
    ELSE FromBytes(SubSeq(buffer, 1, Len(buffer) - 1)) * 256 + buffer[Len(buffer)]

\* int.to_bytes(width, "big")
RECURSIVE ToBytes(_, _)
ToBytes(n, width) ==
    IF width = 0 THEN <<>> ELSE ToBytes(n \div 256, width - 1) \o <<n % 256>>

\* b"".join of a list of buffers
RECURSIVE Flatten(_)
Flatten(buffers) ==
    IF buffers = <<>> THEN <<>> ELSE Head(buffers) \o Flatten(Tail(buffers))

\* is_data_bytes: no byte has bit 7
is_data_bytes(data) == \A i \in 1 .. Len(data) : BitAnd(data[i], 128) # 128

\* A raised exception.
Raised(error) == [ok |-> FALSE, error |-> error]

\* read_status_byte: one byte that must have bit 7
read_status_byte(s, pos) ==
    IF pos >= Len(s) THEN Raised("ValueError")
    ELSE IF BitAnd(s[pos + 1], 128) # 128 THEN Raised("ValueError")
    ELSE [ok |-> TRUE, byte |-> s[pos + 1], pos |-> pos + 1]

END_OF_FILE_MARK == <<0, 0, 0, 0>>

\* b"YADD" and its scrambled form 4E 96 53 93
ID_YADD == <<89, 65, 68, 68>>

ID_SCRAMBLED_YADD == <<78, 150, 83, 147>>

\* AdpcmChunkTrack.TRACK_ID, b"YAWV"
TRACK_ID == <<89, 65, 87, 86>>

\* b"\xffMR" and b"\xffPR", the first three bytes of a track chunk's id
ID_M_TRACK == <<255, 77, 82>>

ID_P_TRACK == <<255, 80, 82>>

\* The dataclasses of the chunk flavours.
GenericChunk(id, payload) == [class |-> "GenericChunk", id |-> id, payload |-> payload]

AdpcmChunkTrack(data) == [data |-> data]

AdpcmChunk(id, tracks) == [class |-> "AdpcmChunk", id |-> id, tracks |-> tracks]

MTrackEvent(status_byte, data_bytes, delta_time) ==
    [status_byte |-> status_byte, data_bytes |-> data_bytes, delta_time |-> delta_time]

MTrackChunk(id, chunk_events) == [class |-> "MTrackChunk", id |-> id, events |-> chunk_events]

PTrackChunk(id, chunk_events) == [class |-> "PTrackChunk", id |-> id, events |-> chunk_events]

\* MTrackEvent.write: delta time, status byte, data bytes
MTrackEvent_write(event) ==
    write_extended_variable_int(event.delta_time, <<>>)
        \o <<event.status_byte>> \o event.data_bytes

\* PTrackEvent.write: as an M-track event, then the duration if there is one
\* (write_variable_int raises above 0x04103F)
PTrackEvent_write(event) ==
    LET head == write_extended_variable_int(event.delta_time, <<>>)
                    \o <<event.status_byte>> \o event.data_bytes
        duration == write_variable_int(event.duration)
    IN  IF event.duration = None THEN [ok |-> TRUE, bytes |-> head]
        ELSE IF ~duration.ok THEN [ok |-> FALSE, bytes |-> <<>>]
        ELSE [ok |-> TRUE, bytes |-> head \o duration.bytes]

\* _payload_buffer of each flavour: the payload; the data of the tracks, one
\* after the other; the events as their write methods write them.
payload_buffer(c) ==
    IF c.class = "GenericChunk" THEN [ok |-> TRUE, bytes |-> c.payload]
    ELSE IF c.class = "AdpcmChunk"
    THEN [ok |-> TRUE, bytes |-> Flatten([i \in 1 .. Len(c.tracks) |-> c.tracks[i].data])]
    ELSE IF c.class = "MTrackChunk"
    THEN [ok |-> TRUE,
          bytes |-> Flatten([i \in 1 .. Len(c.events) |-> MTrackEvent_write(c.events[i])])]
    ELSE LET written == [i \in 1 .. Len(c.events) |-> PTrackEvent_write(c.events[i])] IN
         IF \E i \in 1 .. Len(written) : ~written[i].ok THEN [ok |-> FALSE, bytes |-> <<>>]
         ELSE [ok |-> TRUE, bytes |-> Flatten([i \in 1 .. Len(written) |-> written[i].bytes])]

\* ChunkBase.write, from the payload buffer on: id, length of the payload
\* padded to an even length, padded payload
ChunkBase_write_payload(id, payload) ==
    IF ~payload.ok THEN [ok |-> FALSE, bytes |-> <<>>]
    ELSE IF Len(payload.bytes) % 2 # 0
    THEN [ok |-> TRUE, bytes |-> id \o ToBytes(Len(payload.bytes) + 1, 4) \o payload.bytes \o <<0>>]
    ELSE [ok |-> TRUE, bytes |-> id \o ToBytes(Len(payload.bytes), 4) \o payload.bytes]

\* ChunkBase.write
ChunkBase_write(c) == ChunkBase_write_payload(c.id, payload_buffer(c))

\* ChunkBase.__descramble_header: the scrambled YADD id, its size masked
\* with 0x17D717D7
descramble_header(id, size) ==
    IF id = ID_SCRAMBLED_YADD THEN [id |-> ID_YADD, size |-> BitXor(size, 399972311)]
    ELSE [id |-> id, size |-> size]

\* ChunkBase._read_common, from the descrambled header on: `size` bytes of
\* payload (a short payload is not an error)
read_common_payload(s, pos, header) ==
    [ok |-> TRUE, id |-> header.id, payload |-> Read(s, pos + 8, header.size),
     pos |-> pos + 8 + Len(Read(s, pos + 8, header.size))]

\* ChunkBase._read_common: eight bytes of header, then the payload
read_common(s, pos) ==
    IF Len(Read(s, pos, 8)) = 0 \/ Read(s, pos, 8) = END_OF_FILE_MARK THEN Raised("ValueError")
    ELSE IF Len(Read(s, pos, 8)) # 8 THEN Raised("ValueError")
    ELSE read_common_payload(s, pos,
            descramble_header(SubSeq(s, pos + 1, pos + 4), FromBytes(SubSeq(s, pos + 5, pos + 8))))

\* ChunkBase.peek_header: the header at the position, None at the end of
\* the file; the position is restored
peek_header(s, pos) ==
    IF Len(Read(s, pos, 8)) = 0 \/ Read(s, pos, 8) = END_OF_FILE_MARK THEN Nothing
    ELSE IF Len(Read(s, pos, 8)) # 8 THEN Nothing
    ELSE descramble_header(SubSeq(s, pos + 1, pos + 4), FromBytes(SubSeq(s, pos + 5, pos + 8)))

\* AdpcmChunk.from_generic: `YAWV`, a four-byte size and that many bytes per
\* track, until fewer than eight bytes are left
RECURSIVE AdpcmChunk_read_tracks(_, _, _)
AdpcmChunk_read_tracks(s, pos, tracks) ==
    IF Len(Read(s, pos, 8)) < 8 THEN [ok |-> TRUE, tracks |-> tracks]
    ELSE IF SubSeq(s, pos + 1, pos + 4) # TRACK_ID THEN Raised("ValueError")
    ELSE IF Len(Read(s, pos + 8, FromBytes(SubSeq(s, pos + 5, pos + 8))))
                < FromBytes(SubSeq(s, pos + 5, pos + 8))
    THEN Raised("ValueError")
    ELSE AdpcmChunk_read_tracks(s, pos + 8 + FromBytes(SubSeq(s, pos + 5, pos + 8)),
            Append(tracks,
                   AdpcmChunkTrack(Read(s, pos + 8, FromBytes(SubSeq(s, pos + 5, pos + 8))))))

\* from_generic of the three parsed flavours, from the parsed content on:
\* the exception, or cls(generic.id, ...)
AdpcmChunk_result(id, r) ==
    IF ~r.ok THEN r ELSE [ok |-> TRUE, chunk |-> AdpcmChunk(id, r.tracks)]

AdpcmChunk_from_generic(generic) ==
    AdpcmChunk_result(generic.id, AdpcmChunk_read_tracks(generic.payload, 0, <<>>))

\* read_sysex_data_bytes of both track flavours: bytes up to and with the
\* first byte that has bit 7, which must be the terminator (0xFE in an
\* M-track, 0xF7 in a P-track)
RECURSIVE read_sysex_data_bytes(_, _, _, _)
read_sysex_data_bytes(s, pos, terminator, data_bytes) ==
    IF pos >= Len(s) THEN Raised("ValueError")
    ELSE IF BitAnd(s[pos + 1], 128) = 128
    THEN IF s[pos + 1] # terminator THEN Raised("ValueError")
         ELSE [ok |-> TRUE, data_bytes |-> Append(data_bytes, s[pos + 1]), pos |-> pos + 1]
    ELSE read_sysex_data_bytes(s, pos + 1, terminator, Append(data_bytes, s[pos + 1]))

\* The data-bytes length MTrackEvent.read gives a status byte, None for an
\* unknown one
MTrackEvent_data_bytes_length(status_byte) ==
    IF status_byte \in {241, 242, 245} THEN 0
    ELSE IF status_byte \in {243, 244, 246, 248} THEN 1
    ELSE None

\* MTrackEvent.read of a SysEx message, from the data bytes on
MTrackEvent_read_sysex(delta_time, sysex) ==
    IF ~sysex.ok THEN Raised("ValueError")
    ELSE [ok |-> TRUE, pos |-> sysex.pos,
          event |-> MTrackEvent(255, sysex.data_bytes, delta_time)]

\* MTrackEvent.read of another message, from the data bytes on
MTrackEvent_read_data(delta_time, status, data_bytes) ==
    IF ~is_data_bytes(data_bytes) THEN Raised("ValueError")
    ELSE [ok |-> TRUE, pos |-> status.pos + Len(data_bytes),
          event |-> MTrackEvent(status.byte, data_bytes, delta_time)]

\* MTrackEvent.read, from the status byte on
MTrackEvent_read_message(s, delta_time, status) ==
    IF ~status.ok THEN Raised("ValueError")
    ELSE IF status.byte = 255
    THEN MTrackEvent_read_sysex(delta_time, read_sysex_data_bytes(s, status.pos, 254, <<>>))
    ELSE IF MTrackEvent_data_bytes_length(status.byte) = None THEN Raised("ValueError")
    ELSE MTrackEvent_read_data(delta_time, status,
            Read(s, status.pos, MTrackEvent_data_bytes_length(status.byte)))

\* MTrackEvent.read, from the delta time on: four bytes are read and
\* compared with the end-of-track mark, seek(-4) if they differ
MTrackEvent_read_mark(s, delta_time) ==
    IF ~delta_time.ok THEN Raised("ValueError")
    ELSE IF Read(s, delta_time.pos, 4) = END_OF_TRACK_MARK THEN [ok |-> TRUE, event |-> Nothing]
    ELSE MTrackEvent_read_message(s, delta_time.value,
            read_status_byte(s, SeekCur(delta_time.pos + Len(Read(s, delta_time.pos, 4)), -4)))

\* MTrackEvent.read
MTrackEvent_read(s, pos) == MTrackEvent_read_mark(s, read_extended_variable_int(s, pos, 0))

\* MTrackChunk.from_generic: events until MTrackEvent.read returns None.
\* `visited` holds the positions an event was read at: the read depends on
\* the position only, so the loop that comes back to one never ends (the
\* list grows until memory is exhausted).
RECURSIVE MTrackChunk_read_events(_, _, _, _)
RECURSIVE MTrackChunk_append_event(_, _, _, _)
MTrackChunk_append_event(s, chunk_events, visited, r) ==
    IF ~r.ok THEN r
    ELSE IF r.event = Nothing THEN [ok |-> TRUE, events |-> chunk_events]
    ELSE MTrackChunk_read_events(s, r.pos, Append(chunk_events, r.event), visited)

MTrackChunk_read_events(s, pos, chunk_events, visited) ==
    IF pos \in visited THEN Raised("MemoryError")
    ELSE MTrackChunk_append_event(s, chunk_events, visited \cup {pos}, MTrackEvent_read(s, pos))

MTrackChunk_result(id, r) ==
    IF ~r.ok THEN r ELSE [ok |-> TRUE, chunk |-> MTrackChunk(id, r.events)]

MTrackChunk_from_generic(generic) ==
    MTrackChunk_result(generic.id, MTrackChunk_read_events(generic.payload, 0, <<>>, {}))

\* The data-bytes length PTrackEvent.read gives a status byte that is not
\* 0xF0 or 0xFE, None for an unknown one
PTrackEvent_data_bytes_length(status_byte) ==
    IF BitAnd(status_byte, 240) = 128 THEN 3
    ELSE IF BitAnd(status_byte, 240) \in {144, 176, 224} THEN 2
    ELSE IF BitAnd(status_byte, 240) \in {160, 192, 208} THEN 1
    ELSE IF status_byte = 248 THEN 3
    ELSE IF status_byte \in {249, 250} THEN 1
    ELSE IF status_byte = 253 THEN 0
    ELSE None

\* The data-bytes length of a 0xFE event, decided by the byte behind the
\* status byte, which is peeked: 3 for 0xAn, 2 for 0xCn
PTrackEvent_compensation_length(s, pos) ==
    IF pos >= Len(s) THEN None
    ELSE IF BitAnd(s[pos + 1], 240) = 160 THEN 3
    ELSE IF BitAnd(s[pos + 1], 240) = 192 THEN 2
    ELSE None

\* PTrackEvent.read of a SysEx message, from the data bytes on
PTrackEvent_read_sysex(delta_time, sysex) ==
    IF ~sysex.ok THEN Raised("ValueError")
    ELSE [ok |-> TRUE, pos |-> sysex.pos,
          event |-> PTrackEvent(240, sysex.data_bytes, delta_time, None)]

\* PTrackEvent.read of a note, from the duration on
PTrackEvent_read_duration(delta_time, status_byte, data_bytes, duration) ==
    IF ~duration.ok THEN Raised("ValueError")
    ELSE [ok |-> TRUE, pos |-> duration.pos,
          event |-> PTrackEvent(status_byte, data_bytes, delta_time, duration.value)]

\* PTrackEvent.read of another message, from the data bytes on: the first
\* data byte of a 0xFE event is not validated; a note has a duration
PTrackEvent_read_data(s, delta_time, status, data_bytes) ==
    IF ~is_data_bytes(IF status.byte = 254 THEN Tail(data_bytes) ELSE data_bytes)
    THEN Raised("ValueError")
    ELSE IF BitAnd(status.byte, 240) = 128 \/ BitAnd(status.byte, 240) = 144
    THEN PTrackEvent_read_duration(delta_time, status.byte, data_bytes,
            read_variable_int(s, status.pos + Len(data_bytes)))
    ELSE [ok |-> TRUE, pos |-> status.pos + Len(data_bytes),
          event |-> PTrackEvent(status.byte, data_bytes, delta_time, None)]

\* PTrackEvent.read, from the data-bytes length on
PTrackEvent_read_length(s, delta_time, status, data_bytes_length) ==
    IF data_bytes_length = None THEN Raised("ValueError")
    ELSE PTrackEvent_read_data(s, delta_time, status, Read(s, status.pos, data_bytes_length))

\* PTrackEvent.read, from the status byte on
PTrackEvent_read_message(s, delta_time, status) ==
    IF ~status.ok THEN Raised("ValueError")
    ELSE IF status.byte = 240
    THEN PTrackEvent_read_sysex(delta_time, read_sysex_data_bytes(s, status.pos, 247, <<>>))
    ELSE IF status.byte = 254
    THEN PTrackEvent_read_length(s, delta_time, status,
            PTrackEvent_compensation_length(s, status.pos))
    ELSE PTrackEvent_read_length(s, delta_time, status,
            PTrackEvent_data_bytes_length(status.byte))

\* PTrackEvent.read, from the delta time on: the end-of-track mark as in
\* MTrackEvent.read
PTrackEvent_read_mark(s, delta_time) ==
    IF ~delta_time.ok THEN Raised("ValueError")
    ELSE IF Read(s, delta_time.pos, 4) = END_OF_TRACK_MARK THEN [ok |-> TRUE, event |-> Nothing]
    ELSE PTrackEvent_read_message(s, delta_time.value,
            read_status_byte(s, SeekCur(delta_time.pos + Len(Read(s, delta_time.pos, 4)), -4)))

\* PTrackEvent.read
PTrackEvent_read(s, pos) == PTrackEvent_read_mark(s, read_extended_variable_int(s, pos, 0))

\* PTrackChunk.from_generic: events until PTrackEvent.read returns None; a
\* loop that comes back to a position never ends.
RECURSIVE PTrackChunk_read_events(_, _, _, _)
RECURSIVE PTrackChunk_append_event(_, _, _, _)
PTrackChunk_append_event(s, chunk_events, visited, r) ==
    IF ~r.ok THEN r
    ELSE IF r.event = Nothing THEN [ok |-> TRUE, events |-> chunk_events]
    ELSE PTrackChunk_read_events(s, r.pos, Append(chunk_events, r.event), visited)

PTrackChunk_read_events(s, pos, chunk_events, visited) ==
    IF pos \in visited THEN Raised("MemoryError")
    ELSE PTrackChunk_append_event(s, chunk_events, visited \cup {pos}, PTrackEvent_read(s, pos))

PTrackChunk_result(id, r) ==
    IF ~r.ok THEN r ELSE [ok |-> TRUE, chunk |-> PTrackChunk(id, r.events)]

PTrackChunk_from_generic(generic) ==
    PTrackChunk_result(generic.id, PTrackChunk_read_events(generic.payload, 0, <<>>, {}))

\* b"YPTI", b"YP3I", b"YPXI": the ids of the track-info chunks
INFO_CHUNK_IDS == {<<89, 80, 84, 73>>, <<89, 80, 51, 73>>, <<89, 80, 88, 73>>}

\* read_chunk, from the flavour's from_generic on: its exception, or the
\* chunk and the position behind the payload
read_chunk_result(pos, flavour) ==
    IF ~flavour.ok THEN flavour
    ELSE [ok |-> TRUE, chunk |-> flavour.chunk, pos |-> pos]

\* read_chunk, from GenericChunk.read on: the flavour the id selects. The
\* track-info flavours have parsers of their own; no chunk written here has
\* one of their ids.
read_chunk_flavour(generic) ==
    IF ~generic.ok THEN generic
    ELSE IF SubSeq(generic.id, 1, 3) = ID_M_TRACK
    THEN read_chunk_result(generic.pos, MTrackChunk_from_generic(generic))
    ELSE IF SubSeq(generic.id, 1, 3) = ID_P_TRACK
    THEN read_chunk_result(generic.pos, PTrackChunk_from_generic(generic))
    ELSE IF generic.id = ID_YADD
    THEN read_chunk_result(generic.pos, AdpcmChunk_from_generic(generic))
    ELSE [ok |-> TRUE, chunk |-> GenericChunk(generic.id, generic.payload),
          pos |-> generic.pos]

\* read_chunk
read_chunk(s, pos) == read_chunk_flavour(read_common(s, pos))

(***************************************************************************)
(* SpecChunk: a chunk object is written by ChunkBase.write into an empty   *)
(* stream, and read_chunk reads the stream from position 0.                *)
(***************************************************************************)
\* Longest payload of a generic chunk, longest list of tracks and of events.
MaxPayloadLen == 3

MaxTracks == 2

MaxChunkEvents == 2

\* An id no flavour claims, b"YDIR"
ID_GENERIC == <<89, 68, 73, 82>>

\* ADPCM track data: none, two bytes, a whole `YAWV` track with no data
TrackData == {<<>>, <<1, 2>>, TRACK_ID \o <<0, 0, 0, 0>>}

\* M-track events as MTrackEvent.read returns them
MTrackEvents ==
    {MTrackEvent(241, <<>>, 0),
     MTrackEvent(243, <<1>>, 5),
     MTrackEvent(246, <<0>>, 64),
     MTrackEvent(255, <<1, 254>>, 0)}

\* The event the MIDI conversions append to a track: status byte 0x00 and
\* three zero data bytes, written as the end-of-track mark
END_OF_TRACK_EVENT_M == MTrackEvent(0, <<0, 0, 0>>, 0)

END_OF_TRACK_EVENT_P == PTrackEvent(0, <<0, 0, 0>>, 0, None)

\* Chunks of the four flavours; a track chunk as from_generic returns it
\* and as the MIDI conversion builds it, with the end-of-track event.
Chunks ==
    {GenericChunk(ID_GENERIC, payload) : payload \in SeqsOver({0, 7}, MaxPayloadLen)}
    \cup {AdpcmChunk(ID_YADD, [i \in 1 .. Len(data) |-> AdpcmChunkTrack(data[i])]) :
            data \in SeqsOver(TrackData, MaxTracks)}
    \cup {MTrackChunk(ID_M_TRACK \o <<0>>, list \o tail) :
            list \in SeqsOver(MTrackEvents, MaxChunkEvents),
            tail \in {<<>>, <<END_OF_TRACK_EVENT_M>>}}
    \cup {PTrackChunk(ID_P_TRACK \o <<1>>, list \o tail) :
            list \in SeqsOver(StoredEvents, MaxChunkEvents),
            tail \in {<<>>, <<END_OF_TRACK_EVENT_P>>}}

InitChunk ==
    /\ pc = "chunk_write"
    /\ chunk \in Chunks
    /\ chunk_stream = <<>>
    /\ chunk_read = Nothing
    /\ okd_file = Nothing
    /\ okd_stream = <<>>
    /\ okd_read = Nothing
    /\ IdleVarInt
    /\ IdleScramble
    /\ IdlePTrack
    /\ IdleUtils

\* chunk.write(stream) on an empty stream
ChunkWrite ==
    /\ pc = "chunk_write"
    /\ chunk.id \notin INFO_CHUNK_IDS
    /\ ChunkBase_write(chunk).ok
    /\ chunk_stream' = ChunkBase_write(chunk).bytes
    /\ pc' = "read_chunk"
    /\ UNCHANGED <<chunk, chunk_read, varsOkdFile, varsVarInt, varsScramble, varsPTrack, varsUtils>>

\* read_chunk(stream) after stream.seek(0)
ReadChunk ==
    /\ pc = "read_chunk"
    /\ chunk_read' = read_chunk(chunk_stream, 0)
    /\ pc' = "done"
    /\ UNCHANGED <<chunk, chunk_stream, varsOkdFile, varsVarInt, varsScramble, varsPTrack, varsUtils>>

NextChunk == ChunkWrite \/ ReadChunk

SpecChunk == InitChunk /\ [][NextChunk]_vars

\* The chunk read back is the chunk written, or differs from it by the pad
\* byte of an odd payload only.
EqualModuloPad(read, written) ==
    \/ read = written
    \/ /\ read.class = written.class
       /\ read.id = written.id
       /\ Len(payload_buffer(written).bytes) % 2 # 0
       /\ payload_buffer(read).ok
       /\ payload_buffer(read).bytes = payload_buffer(written).bytes \o <<0>>

\* C2: read_chunk applied to the bytes written by c.write returns a chunk
\* equal to c, up to one trailing 0x00 pad byte of an odd payload, for every
\* flavour. (The claim as stated; it does not hold of AdpcmChunk, MTrackChunk
\* and PTrackChunk.)
C2_ChunkRoundTrip ==
    pc = "done" => chunk_read.ok /\ EqualModuloPad(chunk_read.chunk, chunk)

\* The bytes end with the end-of-track mark 00 00 00 00.
EndsWithMark(bytes) ==
    /\ Len(bytes) >= 4
    /\ SubSeq(bytes, Len(bytes) - 3, Len(bytes)) = END_OF_FILE_MARK

IsTrackChunk(c) == c.class \in {"MTrackChunk", "PTrackChunk"}

\* C13: the payload serialized for an M-track or P-track chunk ends with
\* the end-of-track mark 00 00 00 00, both for the chunk that was written
\* (built by the MIDI conversion, with its end-of-track event, or as
\* from_generic returns it) and for the chunk read_chunk parsed from the
\* written bytes. (It does not hold: _payload_buffer writes the events of
\* the list and nothing else, and the parser does not keep the mark as an
\* event.)
C13_PayloadEndsWithMark ==
    /\ (pc # "chunk_write" /\ IsTrackChunk(chunk)) =>
            EndsWithMark(payload_buffer(chunk).bytes)
    /\ (pc = "done" /\ chunk_read.ok /\ IsTrackChunk(chunk_read.chunk)) =>
            EndsWithMark(payload_buffer(chunk_read.chunk).bytes)

(***************************************************************************)
(* okd_file.py: the headers and OkdFile                                    *)
(***************************************************************************)
\* OkdHeaderBase.MAGIC_BYTES, b"YKS1"
MAGIC_BYTES == <<89, 75, 83, 49>>

FIXED_PART_LENGTH == 40

\* SprcHeader's magic bytes, b"SPRC"
SPRC_MAGIC_BYTES == <<83, 80, 82, 67>>

\* The header dataclasses: the fields of OkdHeaderBase, and in `fields` the
\* fields a variant adds, in the order the dataclass declares them.
\* OkdGenericHeader has the optional data itself there.
OkdHeader(class, header_length, version, id_karaoke, adpcm_offset, encryption_mode, fields) ==
    [class |-> class, length |-> header_length, version |-> version,
     id_karaoke |-> id_karaoke, adpcm_offset |-> adpcm_offset,
     encryption_mode |-> encryption_mode, fields |-> fields]

\* _optional_data_buffer of each variant: the byte width of each field in
\* the order it is written
optional_data_widths(class) ==
    IF class = "YksOkdHeader" THEN <<>>
    ELSE IF class = "MmtOkdHeader" THEN <<4, 4, 2, 2>>
    ELSE IF class = "MmkOkdHeader" THEN <<4, 4, 4, 2, 2, 2>>
    ELSE IF class = "SprOkdHeader" THEN <<4, 4, 4, 4, 2, 2, 2, 2>>
    ELSE <<4, 4, 4, 4, 4, 2, 2, 2, 2, 2>>

\* _optional_data_buffer: the padding MMK and DIO headers append
optional_data_padding(class) ==
    IF class \in {"MmkOkdHeader", "DioOkdHeader"} THEN <<0, 0>> ELSE <<>>

\* from_generic of each variant: the slice optional_data[a:b] of each field
optional_data_slices(class) ==
    IF class = "YksOkdHeader" THEN <<>>
    ELSE IF class = "MmtOkdHeader" THEN <<<<0, 4>>, <<4, 8>>, <<8, 10>>, <<10, 12>>>>
    ELSE IF class = "MmkOkdHeader"
    THEN <<<<0, 4>>, <<4, 8>>, <<8, 12>>, <<12, 14>>, <<14, 16>>, <<16, 18>>>>
    ELSE IF class = "SprOkdHeader"
    THEN <<<<0, 4>>, <<4, 8>>, <<8, 12>>, <<12, 16>>,
           <<16, 18>>, <<18, 20>>, <<20, 22>>, <<22, 24>>>>
    ELSE <<<<0, 4>>, <<4, 8>>, <<8, 12>>, <<12, 16>>, <<16, 20>>,
           <<20, 22>>, <<22, 24>>, <<24, 26>>, <<26, 28>>, <<28, 30>>>>

\* optional_data_buffer_size of each variant; OkdGenericHeader's raises
\* NotImplementedError (None here)
optional_data_buffer_size(class) ==
    IF class = "YksOkdHeader" THEN 0
    ELSE IF class = "MmtOkdHeader" THEN 12
    ELSE IF class = "MmkOkdHeader" THEN 20
    ELSE IF class = "SprOkdHeader" THEN 24
    ELSE IF class = "DioOkdHeader" THEN 32
    ELSE None

\* _optional_data_buffer
optional_data_buffer(header) ==
    IF header.class = "OkdGenericHeader" THEN header.fields
    ELSE LET widths == optional_data_widths(header.class) IN
         Flatten([i \in 1 .. Len(widths) |-> ToBytes(header.fields[i], widths[i])])
            \o optional_data_padding(header.class)

\* bytes.ljust(width, b"\x00")
ljust(buffer, width) ==
    IF Len(buffer) >= width THEN buffer
    ELSE buffer \o [i \in 1 .. width - Len(buffer) |-> 0]

\* OkdHeaderBase.write
OkdHeaderBase_write(header) ==
    LET buffer == optional_data_buffer(header) IN
    MAGIC_BYTES \o ToBytes(header.length, 4) \o ljust(header.version, 16)
        \o ToBytes(header.id_karaoke, 4) \o ToBytes(header.adpcm_offset, 4)
        \o ToBytes(header.encryption_mode, 4) \o ToBytes(Len(buffer), 4) \o buffer

\* OkdHeaderBase._read_common with scramble_pattern_index None, then
\* OkdGenericHeader.read: the fixed part of 40 bytes, the optional data
OkdGenericHeader_read(s, pos) ==
    LET fixed_part_buffer == Read(s, pos, FIXED_PART_LENGTH)
        version == SubSeq(fixed_part_buffer, 9, 24)
        optional_data_length == FromBytes(SubSeq(fixed_part_buffer, 37, 40))
        variable_part_buffer == Read(s, pos + FIXED_PART_LENGTH, optional_data_length)
    IN  IF Len(fixed_part_buffer) < FIXED_PART_LENGTH THEN Raised("ValueError")
        ELSE IF SubSeq(fixed_part_buffer, 1, 4) # MAGIC_BYTES THEN Raised("ValueError")
        ELSE IF ~is_data_bytes(version) THEN Raised("UnicodeDecodeError")
        ELSE IF Len(variable_part_buffer) < optional_data_length THEN Raised("ValueError")
        ELSE [ok |-> TRUE, pos |-> pos + FIXED_PART_LENGTH + optional_data_length,
              header |-> OkdHeader("OkdGenericHeader",
                            FromBytes(SubSeq(fixed_part_buffer, 5, 8)), version,
                            FromBytes(SubSeq(fixed_part_buffer, 25, 28)),
                            FromBytes(SubSeq(fixed_part_buffer, 29, 32)),
                            FromBytes(SubSeq(fixed_part_buffer, 33, 36)),
                            variable_part_buffer)]

\* from_generic of a variant: each field from its slice of optional_data
OkdHeader_from_generic(class, generic) ==
    LET slices == optional_data_slices(class) IN
    [generic EXCEPT !.class = class,
                    !.fields = [i \in 1 .. Len(slices) |->
                        FromBytes(SubSeq(generic.fields, slices[i][1] + 1, slices[i][2]))]]

\* read_okd_header, from OkdGenericHeader.read on: the variant whose
\* optional_data_buffer_size is the length of the optional data, the generic
\* header if there is none
OkdHeader_variant(generic) ==
    IF ~generic.ok THEN generic
    ELSE IF \A class \in {"YksOkdHeader", "MmtOkdHeader", "MmkOkdHeader",
                          "SprOkdHeader", "DioOkdHeader"} :
                optional_data_buffer_size(class) # Len(generic.header.fields)
    THEN generic
    ELSE [generic EXCEPT !.header =
            OkdHeader_from_generic(
                CHOOSE class \in {"YksOkdHeader", "MmtOkdHeader", "MmkOkdHeader",
                                  "SprOkdHeader", "DioOkdHeader"} :
                    optional_data_buffer_size(class) = Len(generic.header.fields),
                generic.header)]

\* read_okd_header
read_okd_header(s, pos) == OkdHeader_variant(OkdGenericHeader_read(s, pos))

\* SprcHeader.has_sprc_header
has_sprc_header(s, pos) ==
    LET buffer == Read(s, pos, 16) IN
    IF Len(buffer) < 16 THEN FALSE ELSE SubSeq(buffer, 1, 4) = SPRC_MAGIC_BYTES

\* The loop of OkdFile.read: read_chunk until peek_header returns None
RECURSIVE OkdFile_read_chunks(_, _, _)
RECURSIVE OkdFile_append_chunk(_, _, _)
OkdFile_append_chunk(s, chunks, r) ==
    IF ~r.ok THEN r ELSE OkdFile_read_chunks(s, r.pos, Append(chunks, r.chunk))

OkdFile_read_chunks(s, pos, chunks) ==
    IF peek_header(s, pos) = Nothing THEN [ok |-> TRUE, chunks |-> chunks]
    ELSE OkdFile_append_chunk(s, chunks, read_chunk(s, pos))

\* detect_scramble_pattern_index on a stream that starts with the expected
\* magic bytes: None, the file is not scrambled
starts_with_magic_bytes(s) == Read(s, 0, 4) = MAGIC_BYTES

\* OkdFile.read, from the chunk loop on: its exception, or cls(header, chunks)
OkdFile_result(header, chunks) ==
    IF ~chunks.ok THEN chunks
    ELSE [ok |-> TRUE, file |-> [header |-> header, chunks |-> chunks.chunks]]

\* OkdFile.read, from read_okd_header on: header.optional_data_buffer_size()
\* is called for the scrambled length, then the chunks of the rest of the
\* stream are read
OkdFile_read_body(s, header) ==
    IF ~header.ok THEN header
    ELSE IF optional_data_buffer_size(header.header.class) = None
    THEN Raised("NotImplementedError")
    ELSE OkdFile_result(header.header,
            OkdFile_read_chunks(SubSeq(s, header.pos + 1, Len(s)), 0, <<>>))

\* OkdFile.read of a stream without SPRC header that is not scrambled
OkdFile_read(s) == OkdFile_read_body(s, read_okd_header(s, 0))

\* The chunks buffer of OkdFile.write: every chunk written behind the other
OkdFile_chunks_buffer(chunks) ==
    LET written == [i \in 1 .. Len(chunks) |-> ChunkBase_write(chunks[i])] IN
    IF \E i \in 1 .. Len(written) : ~written[i].ok THEN [ok |-> FALSE, bytes |-> <<>>]
    ELSE [ok |-> TRUE, bytes |-> Flatten([i \in 1 .. Len(written) |-> written[i].bytes])]

\* OkdFile.write whose length field counts the whole header (a variant for
\* comparison: no `- 8`)
OkdFile_write_header_whole(file) ==
    [file.header EXCEPT
        !.length = FIXED_PART_LENGTH + Len(optional_data_buffer(file.header))
                    + Len(OkdFile_chunks_buffer(file.chunks).bytes),
        !.encryption_mode = 0]

\* OkdFile.write with should_scramble False: self.header.length and
\* self.header.encryption_mode as the method sets them
OkdFile_write_header(file) ==
    [file.header EXCEPT
        !.length = FIXED_PART_LENGTH + Len(optional_data_buffer(file.header))
                    + Len(OkdFile_chunks_buffer(file.chunks).bytes) - 8,
        !.encryption_mode = 0]

\* OkdFile.write with should_scramble False: header, chunks, end-of-file mark
OkdFile_write(file) ==
    OkdHeaderBase_write(OkdFile_write_header(file))
        \o OkdFile_chunks_buffer(file.chunks).bytes \o END_OF_FILE_MARK

(***************************************************************************)
(* SpecOkdFile: an OkdFile object is written by OkdFile.write with         *)
(* should_scramble False into an empty stream, and OkdFile.read reads the  *)
(* stream from position 0.                                                 *)
(***************************************************************************)
\* Longest list of chunks of a file.
MaxChunks == 2

\* Version strings: 16 ASCII characters ("YKS-1   v6.0v110") and a shorter
\* one ("V1")
Versions ==
    {<<89, 75, 83, 45, 49, 32, 32, 32, 118, 54, 46, 48, 118, 49, 49, 48>>, <<86, 49>>}

\* The value of the i-th added field of a header: four and two bytes whose
\* bytes all differ, the last one by the field
FieldValue(width, i) == IF width = 4 THEN 16909056 + i ELSE 1280 + i

\* Headers of the five variants; length and encryption_mode are whatever
\* the object held before the write.
Headers ==
    {OkdHeader(class, 0, version, 16909060, adpcm_offset, encryption_mode,
               [i \in 1 .. Len(optional_data_widths(class)) |->
                    FieldValue(optional_data_widths(class)[i], i)]) :
        class \in {"YksOkdHeader", "MmtOkdHeader", "MmkOkdHeader",
                   "SprOkdHeader", "DioOkdHeader"},
        version \in Versions, adpcm_offset \in {0, 4096}, encryption_mode \in {0, 1}}

\* The chunks of a file: generic ones with an empty, an even and an odd
\* payload, ADPCM chunks without and with a track, track chunks as parsed
\* and as the MIDI conversion builds them.
FileChunks ==
    {GenericChunk(ID_GENERIC, <<>>),
     GenericChunk(ID_GENERIC, <<0, 7>>),
     GenericChunk(ID_GENERIC, <<7>>),
     AdpcmChunk(ID_YADD, <<>>),
     AdpcmChunk(ID_YADD, <<AdpcmChunkTrack(<<1, 2>>)>>),
     MTrackChunk(ID_M_TRACK \o <<0>>, <<MTrackEvent(243, <<1>>, 5)>>),
     MTrackChunk(ID_M_TRACK \o <<0>>, <<MTrackEvent(241, <<>>, 0), END_OF_TRACK_EVENT_M>>),
     PTrackChunk(ID_P_TRACK \o <<1>>,
                 <<PTrackEvent(144, <<60, 100>>, 0, 100), END_OF_TRACK_EVENT_P>>)}

InitOkdFile ==
    /\ pc = "okd_write"
    /\ okd_file \in [header : Headers, chunks : SeqsOver(FileChunks, MaxChunks)]
    /\ okd_stream = <<>>
    /\ okd_read = Nothing
    /\ chunk = Nothing
    /\ chunk_stream = <<>>
    /\ chunk_read = Nothing
    /\ IdleVarInt
    /\ IdleScramble
    /\ IdlePTrack
    /\ IdleUtils

\* okd_file.write(stream, should_scramble=False) on an empty stream; the
\* method also sets the header's length and encryption_mode
OkdFileWrite ==
    /\ pc = "okd_write"
    /\ \A i \in 1 .. Len(okd_file.chunks) : okd_file.chunks[i].id \notin INFO_CHUNK_IDS
    /\ OkdFile_chunks_buffer(okd_file.chunks).ok
    /\ okd_stream' = OkdFile_write(okd_file)
    /\ okd_file' = [okd_file EXCEPT !.header = OkdFile_write_header(okd_file)]
    /\ pc' = "okd_read"
    /\ UNCHANGED <<okd_read, varsChunk, varsVarInt, varsScramble, varsPTrack, varsUtils>>

\* OkdFile.read(stream) after stream.seek(0)
OkdFileRead ==
    /\ pc = "okd_read"
    /\ ~has_sprc_header(okd_stream, 0)
    /\ starts_with_magic_bytes(okd_stream)
    /\ okd_read' = OkdFile_read(okd_stream)
    /\ pc' = "done"
    /\ UNCHANGED <<okd_file, okd_stream, varsChunk, varsVarInt, varsScramble, varsPTrack, varsUtils>>

NextOkdFile == OkdFileWrite \/ OkdFileRead

SpecOkdFile == InitOkdFile /\ [][NextOkdFile]_vars

\* C1: OkdFile.read of the bytes of OkdFile.write(F, should_scramble=False)
\* returns a value equal to F: the same header fields and the same chunks,
\* chunk by chunk. (The claim as stated, read in its favour: F is the object
\* after the write, the version is compared up to its NUL padding and a
\* chunk up to the pad byte of an odd payload. It does not hold of a file
\* with an ADPCM chunk that has a track, or with a track chunk.)
C1_OkdFileRoundTrip ==
    pc = "done" =>
        /\ okd_read.ok
        /\ okd_read.file.header =
                [okd_file.header EXCEPT !.version = ljust(okd_file.header.version, 16)]
        /\ Len(okd_read.file.chunks) = Len(okd_file.chunks)
        /\ \A i \in 1 .. Len(okd_file.chunks) :
                EqualModuloPad(okd_read.file.chunks[i], okd_file.chunks[i])


(***************************************************************************)
(* SpecOkdRewrite: OkdFile.read reads a plaintext file from position 0,    *)
(* and OkdFile.write with should_scramble False writes the value that was  *)
(* read into an empty stream.                                              *)
(***************************************************************************)
\* Values of the length field of an input file: what OkdFile.write stores
\* for a file without chunks, the size of such a file minus 8, and 0x30
LengthFields == {32, 36, 48}

\* A plaintext file with a YKS header, as it lies on disk
PlaintextFile(header_length, version, id_karaoke, adpcm_offset, encryption_mode, chunks_buffer) ==
    MAGIC_BYTES \o ToBytes(header_length, 4) \o ljust(version, 16)
        \o ToBytes(id_karaoke, 4) \o ToBytes(adpcm_offset, 4)
        \o ToBytes(encryption_mode, 4) \o ToBytes(0, 4)
        \o chunks_buffer \o END_OF_FILE_MARK

\* The input files: without chunks and with one generic chunk
PlaintextFiles ==
    {PlaintextFile(header_length, version, id_karaoke, adpcm_offset, encryption_mode, chunks_buffer) :
        header_length \in LengthFields, version \in Versions,
        id_karaoke \in {0, 16909060}, adpcm_offset \in {0, 4096},
        encryption_mode \in {0, 1},
        chunks_buffer \in {<<>>, ChunkBase_write(GenericChunk(ID_GENERIC, <<0, 7>>)).bytes}}

\* The unscrambled YKS skeleton: 59 4B 53 31, 00 00 00 30, the version
\* "YKS-1   v6.0v110", four zero fields, the end-of-file mark
Skeleton ==
    <<89, 75, 83, 49, 0, 0, 0, 48,
      89, 75, 83, 45, 49, 32, 32, 32, 118, 54, 46, 48, 118, 49, 49, 48,
      0, 0, 0, 0, 0, 0, 0, 0, 0, 0, 0, 0, 0, 0, 0, 0, 0, 0, 0, 0>>

InitOkdRewrite ==
    /\ pc = "rewrite_read"
    /\ okd_stream \in PlaintextFiles
    /\ okd_read = Nothing
    /\ okd_file = Nothing
    /\ okd_written = <<>>
    /\ IdleAfterRewrite
    /\ chunk = Nothing
    /\ chunk_stream = <<>>
    /\ chunk_read = Nothing
    /\ IdleVarInt
    /\ IdleScramble
    /\ IdlePTrack

\* OkdFile.read(stream) of the input file
OkdRewriteRead ==
    /\ pc = "rewrite_read"
    /\ ~has_sprc_header(okd_stream, 0)
    /\ starts_with_magic_bytes(okd_stream)
    /\ okd_read' = OkdFile_read(okd_stream)
    /\ pc' = "rewrite_write"
    /\ UNCHANGED <<okd_file, okd_stream, okd_written, varsAfterRewrite, varsChunk, varsVarInt, varsScramble, varsPTrack>>

\* okd_file.write(stream, should_scramble=False) of the value that was
\* read, on an empty stream; the method also sets the header's length and
\* encryption_mode
OkdRewriteWrite ==
    /\ pc = "rewrite_write"
    /\ okd_read.ok
    /\ OkdFile_chunks_buffer(okd_read.file.chunks).ok
    /\ okd_written' = OkdFile_write(okd_read.file)
    /\ okd_file' = [okd_read.file EXCEPT !.header = OkdFile_write_header(okd_read.file)]
    /\ pc' = "done"
    /\ UNCHANGED <<okd_read, okd_stream, varsAfterRewrite, varsChunk, varsVarInt, varsScramble, varsPTrack>>

NextOkdRewrite == OkdRewriteRead \/ OkdRewriteWrite

SpecOkdRewrite == InitOkdRewrite /\ [][NextOkdRewrite]_vars

\* A file of the shape of the skeleton: 44 bytes, the fields id_karaoke,
\* adpcm_offset, encryption_mode and optional_data_length zero, no chunk
HasSkeletonShape(s) ==
    /\ Len(s) = FIXED_PART_LENGTH + 4
    /\ \A i \in 25 .. 44 : s[i] = 0

\* The file with its length field replaced
WithLengthField(s, header_length) ==
    SubSeq(s, 1, 4) \o ToBytes(header_length, 4) \o SubSeq(s, 9, Len(s))

\* C12 (as amended): of a plaintext file of the shape of the skeleton,
\* whatever its length field, OkdFile.read yields a YKS header and an empty
\* chunk list, and OkdFile.write of that value with should_scramble False
\* writes the input bytes with the length field 00 00 00 20, the size of
\* header and chunks minus 8.
C12_RewriteSetsLength ==
    (pc = "done" /\ HasSkeletonShape(okd_stream)) =>
        /\ okd_read.ok
        /\ okd_read.file.header.class = "YksOkdHeader"
        /\ okd_read.file.chunks = <<>>
        /\ okd_written = WithLengthField(okd_stream, FIXED_PART_LENGTH - 8)

\* C12 witness: the skeleton was read as a YKS file without chunks and
\* written again.
C12_Witness ==
    /\ pc = "done"
    /\ okd_stream = Skeleton
    /\ okd_read.file.header.class = "YksOkdHeader"
    /\ okd_read.file.header.length = 48
    /\ okd_read.file.chunks = <<>>
    /\ Len(okd_written) = Len(Skeleton)

\* C12 (as stated): OkdFile.read of the skeleton yields a YKS header and an
\* empty chunk list, and OkdFile.write of that value with should_scramble
\* False reproduces the input bytes exactly, length field included.
C12_RewriteReproducesInput ==
    (pc = "done" /\ okd_stream = Skeleton) =>
        /\ okd_read.ok
        /\ okd_read.file.header.class = "YksOkdHeader"
        /\ okd_read.file.chunks = <<>>
        /\ okd_written = okd_stream

(***************************************************************************)
(* p_track_info_chunk.py, p3_track_info_chunk.py: the info entry of a      *)
(* P-track and the P3-track info chunk                                     *)
(***************************************************************************)
\* int.from_bytes(buffer, "little")
RECURSIVE FromBytesLittle(_)
FromBytesLittle(buffer) ==
    IF buffer = <<>> THEN 0 ELSE Head(buffer) + 256 * FromBytesLittle(Tail(buffer))

\* int.to_bytes(width, "little")
RECURSIVE ToBytesLittle(_, _)
ToBytesLittle(n, width) ==
    IF width = 0 THEN <<>> ELSE <<n % 256>> \o ToBytesLittle(n \div 256, width - 1)

\* The dataclass PTrackInfoChannelInfoEntry
PTrackInfoChannelInfoEntry(attribute, ports, control_change_ax, control_change_cx) ==
    [attribute |-> attribute, ports |-> ports,
     control_change_ax |-> control_change_ax, control_change_cx |-> control_change_cx]

\* The dataclasses PTrackInfoEntry and P3TrackInfoChunk (whose id is
\* b"YP3I"): the same fields; the lists hold channel c at index c + 1
TrackInfo(class, track_number, track_status, use_channel_group_flag, default_channel_groups, channel_groups, channel_info, system_ex_ports) ==
    [class |-> class, track_number |-> track_number, track_status |-> track_status,
     use_channel_group_flag |-> use_channel_group_flag,
     default_channel_groups |-> default_channel_groups,
     channel_groups |-> channel_groups, channel_info |-> channel_info,
     system_ex_ports |-> system_ex_ports]

\* PTrackInfoChannelInfoEntry.write
PTrackInfoChannelInfoEntry_write(e) ==
    <<e.attribute, e.ports, e.control_change_ax, e.control_change_cx>>

\* PTrackInfoEntry.write up to the channel info: number, status, flag, the
\* default channel groups whose flag bit is set, the channel groups, the
\* channel info entries
track_info_buffer(entry) ==
    <<entry.track_number, entry.track_status>>
        \o ToBytes(entry.use_channel_group_flag, 2)
        \o Flatten([i \in 1 .. Len(entry.default_channel_groups) |->
                IF BitAnd(Shr(entry.use_channel_group_flag, i - 1), 1) # 1 THEN <<>>
                ELSE ToBytes(entry.default_channel_groups[i], 2)])
        \o Flatten([i \in 1 .. Len(entry.channel_groups) |->
                ToBytes(entry.channel_groups[i], 2)])
        \o Flatten([i \in 1 .. Len(entry.channel_info) |->
                PTrackInfoChannelInfoEntry_write(entry.channel_info[i])])

\* PTrackInfoEntry.write: system_ex_ports.to_bytes(2, "little") at the end
PTrackInfoEntry_write(entry) ==
    track_info_buffer(entry) \o ToBytesLittle(entry.system_ex_ports, 2)

\* P3TrackInfoChunk._payload_buffer: the statements of PTrackInfoEntry.write
P3TrackInfoChunk_payload_buffer(c) ==
    track_info_buffer(c) \o ToBytesLittle(c.system_ex_ports, 2)

\* PTrackInfoChannelInfoEntry.read
PTrackInfoChannelInfoEntry_read(s, pos) ==
    IF Len(Read(s, pos, 4)) < 4 THEN Raised("ValueError")
    ELSE [ok |-> TRUE, pos |-> pos + 4,
          entry |-> PTrackInfoChannelInfoEntry(s[pos + 1], s[pos + 2], s[pos + 3], s[pos + 4])]

\* The loop over the 16 channels that reads a default channel group where
\* the flag bit of the channel is set and appends 0x0000 where it is not
RECURSIVE read_default_channel_groups(_, _, _, _, _)
read_default_channel_groups(s, pos, use_channel_group_flag, channel, groups) ==
    IF channel = 16 THEN [ok |-> TRUE, pos |-> pos, groups |-> groups]
    ELSE IF BitAnd(Shr(use_channel_group_flag, channel), 1) # 1
    THEN read_default_channel_groups(s, pos, use_channel_group_flag, channel + 1,
                                     Append(groups, 0))
    ELSE IF Len(Read(s, pos, 2)) < 2 THEN Raised("ValueError")
    ELSE read_default_channel_groups(s, pos + 2, use_channel_group_flag, channel + 1,
                                     Append(groups, FromBytes(Read(s, pos, 2))))

\* The 32 bytes of the channel groups
read_channel_groups(s, pos) ==
    IF Len(Read(s, pos, 32)) < 32 THEN Raised("ValueError")
    ELSE [ok |-> TRUE, pos |-> pos + 32,
          groups |-> [i \in 1 .. 16 |-> FromBytes(Read(s, pos + 2 * (i - 1), 2))]]

\* The loop over the 16 channels that reads the channel info entries
RECURSIVE read_channel_info(_, _, _, _)
RECURSIVE append_channel_info(_, _, _, _)
append_channel_info(s, channel, list, r) ==
    IF ~r.ok THEN r ELSE read_channel_info(s, r.pos, channel + 1, Append(list, r.entry))

read_channel_info(s, pos, channel, list) ==
    IF channel = 16 THEN [ok |-> TRUE, pos |-> pos, list |-> list]
    ELSE append_channel_info(s, channel, list, PTrackInfoChannelInfoEntry_read(s, pos))

\* The last two bytes, system_ex_ports, in the byte order of the reader,
\* and the object the reader returns
read_system_ex_ports(s, class, head, default_channel_groups, channel_groups, channel_info, little) ==
    IF ~channel_info.ok THEN channel_info
    ELSE IF Len(Read(s, channel_info.pos, 2)) < 2 THEN Raised("ValueError")
    ELSE [ok |-> TRUE, pos |-> channel_info.pos + 2,
          entry |-> TrackInfo(class, head[1], head[2], FromBytes(SubSeq(head, 3, 4)),
                        default_channel_groups.groups, channel_groups.groups,
                        channel_info.list,
                        IF little THEN FromBytesLittle(Read(s, channel_info.pos, 2))
                        ELSE FromBytes(Read(s, channel_info.pos, 2)))]

\* from the channel groups on
read_track_info_channels(s, class, head, default_channel_groups, channel_groups, little) ==
    IF ~channel_groups.ok THEN channel_groups
    ELSE read_system_ex_ports(s, class, head, default_channel_groups, channel_groups,
            read_channel_info(s, channel_groups.pos, 0, <<>>), little)

\* from the default channel groups on
read_track_info_groups(s, class, head, default_channel_groups, little) ==
    IF ~default_channel_groups.ok THEN default_channel_groups
    ELSE read_track_info_channels(s, class, head, default_channel_groups,
            read_channel_groups(s, default_channel_groups.pos), little)

\* The statements PTrackInfoEntry.read and P3TrackInfoChunk.from_generic
\* share: four bytes of number, status and flag, the groups, the channel
\* info, system_ex_ports
read_track_info(s, pos, class, little) ==
    IF Len(Read(s, pos, 4)) < 4 THEN Raised("ValueError")
    ELSE read_track_info_groups(s, class, Read(s, pos, 4),
            read_default_channel_groups(s, pos + 4, FromBytes(Read(s, pos + 2, 2)), 0, <<>>),
            little)

\* PTrackInfoEntry.read: int.from_bytes(buffer[0:2], "little")
PTrackInfoEntry_read(s, pos) == read_track_info(s, pos, "PTrackInfoEntry", TRUE)

\* P3TrackInfoChunk.from_generic on the payload of the generic chunk:
\* int.from_bytes(buffer[0:2], "big")
P3TrackInfoChunk_from_generic(payload) ==
    read_track_info(payload, 0, "P3TrackInfoChunk", FALSE)

(***************************************************************************)
(* SpecTrackInfo: a P-track info entry is written by PTrackInfoEntry.write *)
(* and read by PTrackInfoEntry.read; a P3-track info chunk's payload is    *)
(* made by _payload_buffer and parsed by from_generic.                     *)
(***************************************************************************)
\* Values of system_ex_ports: both bytes equal, the low byte only, the
\* high byte only, both bytes different
SystemExPorts == {0, 1, 15, 255, 256, 257, 258, 4660, 32768, 65535}

\* Values of use_channel_group_flag: no default channel group stored, the
\* one of channel 0, the ones of channels 0 and 15
ChannelGroupFlags == {0, 1, 32769}

\* Info objects as the readers return them: 16 entries in every list, a
\* default channel group of 0x0000 where the flag bit is clear
TrackInfos ==
    {TrackInfo(class, 1, 64, use_channel_group_flag,
               [i \in 1 .. 16 |->
                    IF BitAnd(Shr(use_channel_group_flag, i - 1), 1) = 1 THEN 256 + i ELSE 0],
               [i \in 1 .. 16 |-> 512 * i],
               [i \in 1 .. 16 |-> PTrackInfoChannelInfoEntry(i, 1, 16 + i, 32 + i)],
               system_ex_ports) :
        class \in {"PTrackInfoEntry", "P3TrackInfoChunk"},
        use_channel_group_flag \in ChannelGroupFlags,
        system_ex_ports \in SystemExPorts}

InitTrackInfo ==
    /\ pc = "info_write"
    /\ info_entry \in TrackInfos
    /\ info_stream = <<>>
    /\ info_read = Nothing
    /\ IdleAfterTrackInfo
    /\ IdleRewrite
    /\ IdleOkd
    /\ IdleVarInt
    /\ IdleScramble
    /\ IdlePTrack

othersTrackInfo == <<varsAfterTrackInfo, varsRewrite, varsOkdFile, varsChunk, varsVarInt, varsScramble, varsPTrack>>

\* entry.write(stream) on an empty stream
PTrackInfoEntryWrite ==
    /\ pc = "info_write"
    /\ info_entry.class = "PTrackInfoEntry"
    /\ info_stream' = PTrackInfoEntry_write(info_entry)
    /\ pc' = "info_read"
    /\ UNCHANGED <<info_entry, info_read, othersTrackInfo>>

\* PTrackInfoEntry.read(stream) after stream.seek(0)
PTrackInfoEntryRead ==
    /\ pc = "info_read"
    /\ info_entry.class = "PTrackInfoEntry"
    /\ info_read' = PTrackInfoEntry_read(info_stream, 0)
    /\ pc' = "done"
    /\ UNCHANGED <<info_entry, info_stream, othersTrackInfo>>

\* chunk._payload_buffer()
P3TrackInfoChunkPayloadBuffer ==
    /\ pc = "info_write"
    /\ info_entry.class = "P3TrackInfoChunk"
    /\ info_stream' = P3TrackInfoChunk_payload_buffer(info_entry)
    /\ pc' = "info_read"
    /\ UNCHANGED <<info_entry, info_read, othersTrackInfo>>

\* P3TrackInfoChunk.from_generic(GenericChunk(b"YP3I", payload))
P3TrackInfoChunkFromGeneric ==
    /\ pc = "info_read"
    /\ info_entry.class = "P3TrackInfoChunk"
    /\ info_read' = P3TrackInfoChunk_from_generic(info_stream)
    /\ pc' = "done"
    /\ UNCHANGED <<info_entry, info_stream, othersTrackInfo>>

NextTrackInfo ==
    \/ PTrackInfoEntryWrite
    \/ PTrackInfoEntryRead
    \/ P3TrackInfoChunkPayloadBuffer
    \/ P3TrackInfoChunkFromGeneric

SpecTrackInfo == InitTrackInfo /\ [][NextTrackInfo]_vars

\* C14: a P-track info entry and a P3-track info chunk serialized with
\* system_ex_ports = s and parsed back have system_ex_ports = s, for every
\* s in [0, 0xFFFF]. (It does not hold of the P3-track info chunk, whose
\* reader takes the two bytes big-endian.)
C14_SystemExPortsRoundTrip ==
    pc = "done" => info_read.ok /\ info_read.entry.system_ex_ports = info_entry.system_ex_ports

(***************************************************************************)
(* m_track_chunk.py: MTrackChunk.absolute_time_track and                   *)
(* MTrackInterpretation.from_track                                         *)
(***************************************************************************)
\* The dataclass MTrackAbsoluteTimeEvent
MTrackAbsoluteTimeEvent(status_byte, data_bytes, time) ==
    [status_byte |-> status_byte, data_bytes |-> data_bytes, time |-> time]

\* MTrackChunk.absolute_time_track: the events with the sum of the delta
\* times up to each
RECURSIVE MTrackChunk_absolute_time_track(_, _, _)
MTrackChunk_absolute_time_track(track_events, time, track) ==
    IF track_events = <<>> THEN track
    ELSE MTrackChunk_absolute_time_track(Tail(track_events),
            time + Head(track_events).delta_time,
            Append(track, MTrackAbsoluteTimeEvent(Head(track_events).status_byte,
                            Head(track_events).data_bytes,
                            time + Head(track_events).delta_time)))

\* next((event.time for event in absolute_time_track if event.status_byte
\* == 0xF1 or event.status_byte == 0xF2), -1)
RECURSIVE first_beat_time(_)
first_beat_time(track) ==
    IF track = <<>> THEN -1
    ELSE IF Head(track).status_byte \in {241, 242} THEN Head(track).time
    ELSE first_beat_time(Tail(track))

\* round(numerator / denominator) of positive ints, as Python rounds: to
\* the nearest int, a half to the even one
round(numerator, denominator) ==
    IF 2 * (numerator % denominator) < denominator THEN numerator \div denominator
    ELSE IF 2 * (numerator % denominator) > denominator THEN (numerator \div denominator) + 1
    ELSE IF (numerator \div denominator) % 2 = 0 THEN numerator \div denominator
    ELSE (numerator \div denominator) + 1

\* from_track before its loop: the empty lists and the locals
from_track_locals(track) ==
    [tempos |-> <<>>, time_signatures |-> <<>>, hooks |-> <<>>,
     visible_guide_melody_delimiters |-> <<>>, two_chorus_fadeout_time |-> -1,
     song_section |-> <<-1, -1>>, adpcm_sections |-> <<>>,
     beats |-> 1, current_beat_start |-> first_beat_time(track), current_bpm |-> 125,
     current_hook_start_time |-> 0, song_section_start |-> -1,
     current_adpcm_section_start |-> -1]

\* A beat marker whose tempo entry is appended whatever the running BPM
\* (a variant for comparison)
beat_tempo_always(st, bpm) ==
    [st EXCEPT !.tempos = Append(@, <<st.current_beat_start, bpm>>), !.current_bpm = bpm]

\* The branch of a beat marker, from `bpm = round(60000 / beat_length)` on:
\* the entry (current_beat_start, bpm) if bpm is not current_bpm, then
\* current_bpm = bpm
beat_tempo(st, bpm) ==
    [st EXCEPT !.tempos = IF bpm # st.current_bpm
                          THEN Append(@, <<st.current_beat_start, bpm>>) ELSE @,
               !.current_bpm = bpm]

\* The branch of 0xF1 (beats = 1) and of 0xF2 (beats += 1): `continue` on a
\* beat of length zero
beat_marker(st, event, beats) ==
    IF st.current_beat_start # -1 /\ event.time - st.current_beat_start = 0 THEN st
    ELSE [(IF st.current_beat_start # -1
           THEN beat_tempo(st, round(60000, event.time - st.current_beat_start))
           ELSE st)
          EXCEPT !.beats = beats, !.current_beat_start = event.time]

\* The body of the loop of from_track for one event
from_track_event(st, event) ==
    IF event.status_byte = 241 THEN beat_marker(st, event, 1)
    ELSE IF event.status_byte = 242 THEN beat_marker(st, event, st.beats + 1)
    ELSE IF event.status_byte = 243
    THEN IF event.data_bytes[1] \in {0, 2}
         THEN [st EXCEPT !.current_hook_start_time = event.time]
         ELSE IF event.data_bytes[1] \in {1, 3}
         THEN [st EXCEPT !.hooks = Append(@, <<st.current_hook_start_time, event.time>>)]
         ELSE st
    ELSE IF event.status_byte = 244
    THEN [st EXCEPT !.visible_guide_melody_delimiters =
                        Append(@, <<event.time, event.data_bytes[1]>>)]
    ELSE IF event.status_byte = 245
    THEN [st EXCEPT !.two_chorus_fadeout_time = event.time]
    ELSE IF event.status_byte = 246
    THEN IF event.data_bytes[1] = 0 THEN [st EXCEPT !.song_section_start = event.time]
         ELSE IF event.data_bytes[1] = 1
         THEN [st EXCEPT !.song_section = <<st.song_section_start, event.time>>]
         ELSE st
    ELSE IF event.status_byte = 248
    THEN IF event.data_bytes[1] = 0
         THEN [st EXCEPT !.current_adpcm_section_start = event.time]
         ELSE IF event.data_bytes[1] = 1
         THEN [st EXCEPT !.adpcm_sections =
                            Append(@, <<st.current_adpcm_section_start, event.time>>)]
         ELSE st
    ELSE IF event.status_byte = 255
    THEN [st EXCEPT !.time_signatures =
                        Append(@, <<event.time, event.data_bytes[2], 2 ^ event.data_bytes[3]>>)]
    ELSE st

(***************************************************************************)
(* SpecInterpretation: MTrackInterpretation.from_track of an M-track, one  *)
(* event of the loop at a time.                                            *)
(***************************************************************************)
\* Longest M-track.
MaxMTrackEvents == 4

\* Delta times in ms: none, a beat of 125 BPM (the BPM from_track starts
\* with), of 120 BPM, and of 62.5 and 187.5 BPM, which round to an even BPM
BeatDeltaTimes == {0, 480, 500, 960, 320}

\* Events of an M-track as MTrackEvent.read returns them: beat markers and
\* the marks of a hook
InterpretedEvents ==
    {MTrackEvent(241, <<>>, delta_time) : delta_time \in BeatDeltaTimes}
    \cup {MTrackEvent(242, <<>>, 0), MTrackEvent(242, <<>>, 500),
          MTrackEvent(243, <<0>>, 500), MTrackEvent(243, <<1>>, 1000)}

InitInterpretation ==
    /\ pc = "from_track"
    /\ m_track \in {MTrackChunk(ID_M_TRACK \o <<0>>, list) :
                        list \in SeqsOver(InterpretedEvents, MaxMTrackEvents)}
    /\ m_absolute_time_track = <<>>
    /\ m_event_index = 0
    /\ interpretation = Nothing
    /\ IdleAfterInterpretation
    /\ IdleRewrite
    /\ IdleTrackInfo
    /\ IdleOkd
    /\ IdleVarInt
    /\ IdleScramble
    /\ IdlePTrack

othersInterpretation == <<varsAfterInterpretation, varsRewrite, varsTrackInfo, varsOkdFile, varsChunk, varsVarInt, varsScramble, varsPTrack>>

\* from_track up to its loop
FromTrack ==
    /\ pc = "from_track"
    /\ m_absolute_time_track' = MTrackChunk_absolute_time_track(m_track.events, 0, <<>>)
    /\ interpretation' = from_track_locals(m_absolute_time_track')
    /\ pc' = "from_track_loop"
    /\ UNCHANGED <<m_track, m_event_index, othersInterpretation>>

\* One iteration of `for event in absolute_time_track`
FromTrackEvent ==
    /\ pc = "from_track_loop"
    /\ m_event_index < Len(m_absolute_time_track)
    /\ interpretation' =
            from_track_event(interpretation, m_absolute_time_track[m_event_index + 1])
    /\ m_event_index' = m_event_index + 1
    /\ UNCHANGED <<pc, m_track, m_absolute_time_track, othersInterpretation>>

\* The end of the loop: `return cls(...)`
FromTrackReturn ==
    /\ pc = "from_track_loop"
    /\ m_event_index = Len(m_absolute_time_track)
    /\ pc' = "done"
    /\ UNCHANGED <<varsInterpretation, othersInterpretation>>

NextInterpretation == FromTrack \/ FromTrackEvent \/ FromTrackReturn

SpecInterpretation == InitInterpretation /\ [][NextInterpretation]_vars

\* The event the loop of from_track handles next
NextMTrackEvent == m_absolute_time_track[m_event_index + 1]

\* b is the integer nearest to 60000 / beat_length
IsNearestBpm(b, beat_length) ==
    /\ 2 * (60000 - b * beat_length) <= beat_length
    /\ 2 * (b * beat_length - 60000) <= beat_length

\* C15: in an iteration of from_track an entry is appended to tempos only
\* at a beat marker (0xF1, 0xF2) whose beat interval is longer than zero and
\* whose BPM, round(60000 / beat_length), differs from the running BPM; the
\* entry carries the start of the interval and that BPM. A beat interval of
\* length zero appends nothing and leaves the running BPM unchanged. No two
\* consecutive entries of tempos carry the same BPM.
C15_TempoOnlyOnChange ==
    /\ [][pc = "from_track_loop" /\ pc' = "from_track_loop" =>
            LET beat_length == NextMTrackEvent.time - interpretation.current_beat_start
                tempos == interpretation.tempos
                appended == interpretation'.tempos
            IN  /\ appended # tempos =>
                    /\ NextMTrackEvent.status_byte \in {241, 242}
                    /\ beat_length > 0
                    /\ Len(appended) = Len(tempos) + 1
                    /\ SubSeq(appended, 1, Len(tempos)) = tempos
                    /\ appended[Len(appended)][1] = interpretation.current_beat_start
                    /\ IsNearestBpm(appended[Len(appended)][2], beat_length)
                    /\ appended[Len(appended)][2] # interpretation.current_bpm
                    /\ appended[Len(appended)][2] = interpretation'.current_bpm
                /\ (NextMTrackEvent.status_byte \in {241, 242} /\ beat_length = 0) =>
                    /\ appended = tempos
                    /\ interpretation'.current_bpm = interpretation.current_bpm
       ]_vars
    /\ [](pc \in {"from_track_loop", "done"} =>
            \A i \in 2 .. Len(interpretation.tempos) :
                interpretation.tempos[i][2] # interpretation.tempos[i - 1][2])

\* C15 witness: the beat markers at 0, 500, 1000 and 1480 ms were folded:
\* nothing for the first marker, whose interval has length zero, 120 BPM
\* from 0 (the running BPM was 125), nothing for the second interval of
\* 500 ms, 125 BPM from 1000.
C15_Witness ==
    /\ pc = "done"
    /\ m_absolute_time_track =
            <<MTrackAbsoluteTimeEvent(241, <<>>, 0), MTrackAbsoluteTimeEvent(241, <<>>, 500),
              MTrackAbsoluteTimeEvent(241, <<>>, 1000), MTrackAbsoluteTimeEvent(241, <<>>, 1480)>>
    /\ interpretation.tempos = <<<<0, 120>>, <<1000, 125>>>>

(***************************************************************************)
(* adpcm.py: AdpcmFrame and AdpcmDecoder                                    *)
(***************************************************************************)
FRAMES_PER_FRAME_GROUP == 18

SUB_FRAMES == 4

SUB_FRAME_NIBBLES == 28

SAMPLES_PER_FRAME == SUB_FRAME_NIBBLES * SUB_FRAMES

SHIFT_LIMIT == 12

INDEX_LIMIT == 3

\* K0 = [0.0, 0.9375, 1.796875, 1.53125] and K1 = [0.0, 0.0, -0.8125,
\* -0.859375] in 64ths: the floats are multiples of 1/64, and so is every
\* value the decoder computes from them, exactly
K0 == <<0, 60, 115, 98>>

K1 == <<0, 0, -52, -55>>

SIGNED_NIBBLES == <<0, 1, 2, 3, 4, 5, 6, 7, -8, -7, -6, -5, -4, -3, -2, -1>>

\* The dataclass AdpcmFrame
AdpcmFrame(parameters, samples) == [parameters |-> parameters, samples |-> samples]

\* AdpcmFrame.read
AdpcmFrame_read(s, pos) ==
    IF Len(Read(s, pos, 128)) < 128 THEN [ok |-> FALSE, pos |-> Len(s)]
    ELSE [ok |-> TRUE, pos |-> pos + 128,
          frame |-> AdpcmFrame(SubSeq(s, pos + 1, pos + 16), SubSeq(s, pos + 17, pos + 128))]

\* AdpcmDecoder.__init__
AdpcmDecoder == [prev1 |-> 0, prev2 |-> 0]

\* __clamp16 that rounds and does not clamp (a variant for comparison)
clamp16_round_only(sample) == round(sample, 64)

\* __clamp16 of a float given in 64ths
clamp16(sample) ==
    IF sample > 32767 * 64 THEN 32767
    ELSE IF sample < (-32768) * 64 THEN -32768
    ELSE round(sample, 64)

\* __decode_sample, from `sample = AdpcmDecoder.__clamp16(sample)` on
decode_sample_store(decoder, sample) ==
    [ok |-> TRUE, decoder |-> [prev1 |-> sample, prev2 |-> decoder.prev1], sample |-> sample]

\* __decode_sample: shift is sp & 0x0F, index is sp >> 4; a ValueError
\* leaves the decoder as it is
decode_sample(decoder, sp, su) ==
    IF SHIFT_LIMIT < sp % 16 THEN [ok |-> FALSE, decoder |-> decoder]
    ELSE IF INDEX_LIMIT < sp \div 16 THEN [ok |-> FALSE, decoder |-> decoder]
    ELSE decode_sample_store(decoder,
            clamp16(64 * SIGNED_NIBBLES[su + 1] * (2 ^ (12 - (sp % 16)))
                    + K0[(sp \div 16) + 1] * decoder.prev1
                    + K1[(sp \div 16) + 1] * decoder.prev2))

\* `su = su >> 4 if nibble != 0 else su & 0x0F`
nibble_of(su, nibble) == IF nibble # 0 THEN su \div 16 ELSE su % 16

\* __decode_subframe: the loop over i in range(SUB_FRAME_NIBBLES)
RECURSIVE decode_subframe_loop(_, _, _, _, _, _, _)
RECURSIVE decode_subframe_next(_, _, _, _, _, _, _)
decode_subframe_next(sp, samples, subframe_index, nibble, i, decoded, r) ==
    IF ~r.ok THEN r
    ELSE decode_subframe_loop(r.decoder, sp, samples, subframe_index, nibble, i + 1,
                              Append(decoded, r.sample))

decode_subframe_loop(decoder, sp, samples, subframe_index, nibble, i, decoded) ==
    IF i = SUB_FRAME_NIBBLES THEN [ok |-> TRUE, decoder |-> decoder, decoded |-> decoded]
    ELSE decode_subframe_next(sp, samples, subframe_index, nibble, i, decoded,
            decode_sample(decoder, sp,
                nibble_of(samples[(i * SUB_FRAMES + subframe_index) + 1], nibble)))

\* __decode_subframe
decode_subframe(decoder, sp, samples, subframe_index, nibble) ==
    decode_subframe_loop(decoder, sp, samples, subframe_index, nibble, 0, <<>>)

\* `sp_index = j + i * 2`, and `sp_index += 4` if 2 <= i
sp_index_of(i, j) == IF 2 <= i THEN j + i * 2 + 4 ELSE j + i * 2

\* __decode_frame: the loops over i in range(SUB_FRAMES) and j in range(2),
\* here one loop over k = 2 * i + j
RECURSIVE decode_frame_loop(_, _, _, _)
RECURSIVE decode_frame_next(_, _, _, _)
decode_frame_next(frame, k, decoded, r) ==
    IF ~r.ok THEN r ELSE decode_frame_loop(r.decoder, frame, k + 1, decoded \o r.decoded)

decode_frame_loop(decoder, frame, k, decoded) ==
    IF k = 2 * SUB_FRAMES THEN [ok |-> TRUE, decoder |-> decoder, decoded |-> decoded]
    ELSE decode_frame_next(frame, k, decoded,
            decode_subframe(decoder, frame.parameters[sp_index_of(k \div 2, k % 2) + 1],
                            frame.samples, k \div 2, k % 2))

\* __decode_frame
decode_frame(decoder, frame) == decode_frame_loop(decoder, frame, 0, <<>>)

\* __decode_frame_group: the loop over FRAMES_PER_FRAME_GROUP frames; a
\* ValueError of AdpcmFrame.read or of __decode_sample ends it with the
\* stream and the decoder where they are, and without a list
RECURSIVE decode_frame_group_loop(_, _, _, _, _)
RECURSIVE decode_frame_group_decode(_, _, _, _, _)
RECURSIVE decode_frame_group_next(_, _, _, _, _)
decode_frame_group_next(s, pos, n, decoded, r) ==
    IF ~r.ok THEN [ok |-> FALSE, decoder |-> r.decoder, pos |-> pos]
    ELSE decode_frame_group_loop(r.decoder, s, pos, n + 1, decoded \o r.decoded)

decode_frame_group_decode(decoder, s, n, decoded, frame) ==
    IF ~frame.ok THEN [ok |-> FALSE, decoder |-> decoder, pos |-> frame.pos]
    ELSE decode_frame_group_next(s, frame.pos, n, decoded, decode_frame(decoder, frame.frame))

decode_frame_group_loop(decoder, s, pos, n, decoded) ==
    IF n = FRAMES_PER_FRAME_GROUP
    THEN [ok |-> TRUE, decoder |-> decoder, pos |-> pos, decoded |-> decoded]
    ELSE decode_frame_group_decode(decoder, s, n, decoded, AdpcmFrame_read(s, pos))

\* __decode_frame_group
decode_frame_group(decoder, s, pos) == decode_frame_group_loop(decoder, s, pos, 0, <<>>)

(***************************************************************************)
(* SpecAdpcm: AdpcmDecoder().decode(stream), one iteration of its `while`  *)
(* loop at a time.                                                         *)
(***************************************************************************)
\* Most frame groups of a stream.
MaxFrameGroups == 2

\* A frame whose pairs of parameters are (first, second) and whose sample
\* bytes all are `su`
UniformFrame(first, second, su) ==
    [k \in 1 .. 16 |-> IF k % 2 = 1 THEN first ELSE second] \o [k \in 1 .. 112 |-> su]

\* Frames: silence; nibbles 7 and -8 under index 1, which run into the
\* clamp; different nibbles under different parameters of the other indexes
\* and shifts
GoodFrames ==
    {UniformFrame(0, 0, 0), UniformFrame(16, 16, 119), UniformFrame(16, 16, 136),
     UniformFrame(44, 59, 18)}

\* n copies of the frame
RECURSIVE Copies(_, _)
Copies(frame, n) == IF n = 0 THEN <<>> ELSE frame \o Copies(frame, n - 1)

\* The 20 bytes behind a frame group
Pad(byte) == [k \in 1 .. 20 |-> byte]

\* Frame groups with their pad: 18 frames of one kind behind a pad of 0x00,
\* silence behind a pad of 0xFF
GoodFrameGroups ==
    {Copies(frame, FRAMES_PER_FRAME_GROUP) \o Pad(0) : frame \in GoodFrames}
    \cup {Copies(UniformFrame(0, 0, 0), FRAMES_PER_FRAME_GROUP) \o Pad(255)}

\* The frame group whose frame number `before` (from 0) is the bad one
BadFrameGroup(before, bad) ==
    Copies(UniformFrame(44, 59, 18), before) \o bad
        \o Copies(UniformFrame(44, 59, 18), FRAMES_PER_FRAME_GROUP - before - 1) \o Pad(0)

\* Frame groups whose first or tenth frame is a bad one: its first
\* parameter has shift 13, or its second parameter has index 4
BadFrameGroups ==
    {BadFrameGroup(0, UniformFrame(13, 0, 17)), BadFrameGroup(9, UniformFrame(13, 0, 17)),
     BadFrameGroup(9, UniformFrame(12, 64, 17))}

\* What follows the last whole frame group: nothing, the whole frames and
\* the cut frame of a file that was truncated
Tails == {<<>>, Copies(UniformFrame(44, 59, 18), 5) \o [k \in 1 .. 100 |-> 18]}

AdpcmStreams ==
    {Flatten(groups) \o tail :
        groups \in SeqsOver(GoodFrameGroups \cup BadFrameGroups, MaxFrameGroups),
        tail \in Tails}

InitAdpcm ==
    /\ pc = "decode"
    /\ adpcm_stream \in AdpcmStreams
    /\ adpcm_position = 0
    /\ adpcm_decoder = AdpcmDecoder
    /\ adpcm_decoded = <<>>
    /\ IdleAfterAdpcm
    /\ IdleRewrite
    /\ IdleTrackInfo
    /\ IdleInterpretation
    /\ IdleOkd
    /\ IdleVarInt
    /\ IdleScramble
    /\ IdlePTrack

othersAdpcm == <<varsAfterAdpcm, varsRewrite, varsTrackInfo, varsInterpretation, varsOkdFile, varsChunk, varsVarInt, varsScramble, varsPTrack>>

\* An iteration of the loop of decode in which __decode_frame_group
\* returns: `decoded +=`, then stream.seek(20, os.SEEK_CUR)
DecodeFrameGroup ==
    /\ pc = "decode"
    /\ \E r \in {decode_frame_group(adpcm_decoder, adpcm_stream, adpcm_position)} :
        /\ r.ok
        /\ adpcm_decoded' = adpcm_decoded \o r.decoded
        /\ adpcm_decoder' = r.decoder
        /\ adpcm_position' = r.pos + 20
    /\ UNCHANGED <<pc, adpcm_stream, othersAdpcm>>

\* The iteration in which __decode_frame_group raises ValueError: `break`,
\* then `return decoded`
DecodeBreak ==
    /\ pc = "decode"
    /\ \E r \in {decode_frame_group(adpcm_decoder, adpcm_stream, adpcm_position)} :
        /\ ~r.ok
        /\ adpcm_decoder' = r.decoder
        /\ adpcm_position' = r.pos
    /\ pc' = "done"
    /\ UNCHANGED <<adpcm_stream, adpcm_decoded, othersAdpcm>>

NextAdpcm == DecodeFrameGroup \/ DecodeBreak

SpecAdpcm == InitAdpcm /\ [][NextAdpcm]_vars

\* The first frame of the stream
FirstFrame == AdpcmFrame(SubSeq(adpcm_stream, 1, 16), SubSeq(adpcm_stream, 17, 128))

\* C16: within a subframe the decoder first decodes the 28 high nibbles
\* (byte >> 4) of the bytes samples[k * 4 + i] with the first parameter of
\* the subframe's pair, and only then the 28 low nibbles (byte & 0x0F) of the
\* same bytes with the second parameter; stated of subframe 0 of the first
\* frame, whose 56 samples open the decoded list. (It does not hold:
\* __decode_frame passes nibble 0 with the first parameter, and
\* __decode_subframe takes the low nibble for nibble 0.)
C16_HighNibbleFirst ==
    Len(adpcm_decoded) >= 2 * SUB_FRAME_NIBBLES =>
        \E high \in {decode_subframe(AdpcmDecoder, FirstFrame.parameters[1],
                                     FirstFrame.samples, 0, 1)} :
            \E low \in {decode_subframe(high.decoder, FirstFrame.parameters[2],
                                        FirstFrame.samples, 0, 0)} :
                /\ SubSeq(adpcm_decoded, 1, SUB_FRAME_NIBBLES) = high.decoded
                /\ SubSeq(adpcm_decoded, SUB_FRAME_NIBBLES + 1, 2 * SUB_FRAME_NIBBLES)
                        = low.decoded

\* The frame at the position can be decoded: 128 bytes are there, and the
\* eight parameters __decode_frame uses have shift <= 12 and index <= 3
FrameIsWellFormed(s, pos) ==
    /\ pos + 128 <= Len(s)
    /\ \A k \in {0, 1, 2, 3, 8, 9, 10, 11} :
        s[pos + k + 1] % 16 <= SHIFT_LIMIT /\ s[pos + k + 1] \div 16 <= INDEX_LIMIT

\* The frames of the stream before the first one that cannot be decoded;
\* 20 bytes are skipped behind every 18th frame
RECURSIVE FramesBeforeFailure(_, _, _)
FramesBeforeFailure(s, pos, n) ==
    IF ~FrameIsWellFormed(s, pos) THEN n
    ELSE FramesBeforeFailure(s,
            IF (n + 1) % FRAMES_PER_FRAME_GROUP = 0 THEN pos + 148 ELSE pos + 128, n + 1)

C18_SamplesPerFrameGroup ==
    \A n \in 0 .. MaxFrameGroups :
        (/\ pc = "done"
         /\ Len(adpcm_stream) = n * (FRAMES_PER_FRAME_GROUP * 128 + 20)
         /\ FramesBeforeFailure(adpcm_stream, 0, 0) = n * FRAMES_PER_FRAME_GROUP) =>
            /\ Len(adpcm_decoded) = n * 4032
            /\ \A i \in 1 .. Len(adpcm_decoded) :
                    adpcm_decoded[i] >= -32768 /\ adpcm_decoded[i] <= 32767

\* C18 witness: two well-formed frame groups were decoded to 8064 samples,
\* among them both ends of the range.
C18_Witness ==
    /\ pc = "done"
    /\ Len(adpcm_stream) = 2 * (FRAMES_PER_FRAME_GROUP * 128 + 20)
    /\ FramesBeforeFailure(adpcm_stream, 0, 0) = 2 * FRAMES_PER_FRAME_GROUP
    /\ Len(adpcm_decoded) = 8064
    /\ \E i \in 1 .. Len(adpcm_decoded) : adpcm_decoded[i] = 32767
    /\ \E i \in 1 .. Len(adpcm_decoded) : adpcm_decoded[i] = -32768


(***************************************************************************)
(* SpecMidiToPTracks: midi_to_p_tracks of okd/p_track_conversion.py on     *)
(* MIDI files of at most MaxMidiTracks tracks without a set_tempo message. *)
(***************************************************************************)

\* A mido message: its type, its delta time in ticks, the bytes of bin(),
\* and the port attribute of a midi_port meta message (None otherwise).
MidiMessage(type, bin, time, port) ==
    [type |-> type, bin |-> bin, time |-> time, port |-> port]

\* mido.MetaMessage("midi_port", port=port, time=time); bin() is
\* FF 21 01 pp.
MidiPortMessage(port, time) == MidiMessage("midi_port", <<255, 33, 1, port>>, time, port)

\* mido.MidiFile: ticks_per_beat and the tracks, each a list of messages.
MidiFile(ticks_per_beat, tracks) == [ticks_per_beat |-> ticks_per_beat, tracks |-> tracks]

\* get_track_port: the port of the first midi_port message, None without
\* one.
RECURSIVE get_track_port(_)
get_track_port(track) ==
    IF track = <<>> THEN None
    ELSE IF Head(track).type = "midi_port" THEN Head(track).port
    ELSE get_track_port(Tail(track))

\* MidiTimeConverter is the class of okd/midi_time_converter.py, which
\* p_track_conversion imports under the module name midi.time_converter.
\* MidiTimeConverter.load_from_midi of a file in which no track has a
\* set_tempo message: tempo_track stays None, and tempo_changes is the one
\* entry (0, tempo2bpm(500000)) = (0, 120.0).
MidiTimeConverter_load_from_midi(file) ==
    [ppqn |-> file.ticks_per_beat, tempo_changes |-> <<<<0, 120>>>>]

\* MidiTimeConverter.ticks_to_ms with a single tempo change: the only
\* section is the last one, section_ticks = remaining_ticks, and the
\* outcome is round(0 + ticks * (60_000_000 / bpm) / (ppqn * 1000)).  The
\* quotient is computed exactly: its distance from a half that it does not
\* hit is at least 1 / (2 * bpm * ppqn), far above the float error.
MidiTimeConverter_ticks_to_ms(converter, ticks) ==
    round(ticks * 60000, converter.tempo_changes[1][2] * converter.ppqn)

\* `[[]] * PTrackChunk.PORTS`: the inner list expression is evaluated once,
\* and the outer list holds PORTS references to that one list object.
\* objects is the content of each list object, refs the object each entry
\* of the outer list refers to.
NewAbsoluteTimeTracks == [objects |-> << <<>> >>, refs |-> [i \in 1 .. PORTS |-> 1]]

\* absolute_time_tracks[port].append(event)
absolute_time_tracks_append(st, port, event) ==
    [st EXCEPT !.objects[st.refs[port + 1]] = Append(@, event)]

\* The body of the loop over the messages of a track, track_time being
\* already advanced: a system message goes to the first track of the port,
\* a channel voice message to the track of its channel.
midi_message_event(converter, port, track_time, midi_message_data) ==
    PTrackAbsoluteTimeEvent(midi_message_data[1], Tail(midi_message_data), port,
        IF BitAnd(midi_message_data[1], 240) = 240
        THEN port * CHANNELS_PER_PORT
        ELSE (port * CHANNELS_PER_PORT) + BitAnd(midi_message_data[1], 15),
        MidiTimeConverter_ticks_to_ms(converter, track_time))

RECURSIVE midi_track_loop(_, _, _, _, _)
midi_track_loop(converter, st, port, track_time, rest) ==
    IF rest = <<>> THEN st
    ELSE midi_track_loop(converter,
             absolute_time_tracks_append(st, port,
                 midi_message_event(converter, port, track_time + Head(rest).time, Head(rest).bin)),
             port, track_time + Head(rest).time, Tail(rest))

\* The loop over midi.tracks: a track without port is skipped.
RECURSIVE midi_tracks_loop(_, _, _)
midi_tracks_loop(converter, st, tracks) ==
    IF tracks = <<>> THEN st
    ELSE IF get_track_port(Head(tracks)) = None THEN midi_tracks_loop(converter, st, Tail(tracks))
    ELSE midi_tracks_loop(converter,
             midi_track_loop(converter, st, get_track_port(Head(tracks)), 0, Head(tracks)),
             Tail(tracks))

\* `for absolute_time_track in absolute_time_tracks:
\*      absolute_time_track.sort(key=time)`: each entry's list object is
\* sorted in place.
RECURSIVE sort_absolute_time_tracks(_, _)
sort_absolute_time_tracks(st, i) ==
    IF i > PORTS THEN st
    ELSE sort_absolute_time_tracks(
             [st EXCEPT !.objects[st.refs[i]] = SortByTime(<<>>, @)], i + 1)

\* __midi_to_absolute_time_tracks
midi_to_absolute_time_tracks(file) ==
    sort_absolute_time_tracks(
        midi_tracks_loop(MidiTimeConverter_load_from_midi(file), NewAbsoluteTimeTracks, file.tracks), 1)

\* The search of __absolute_time_track_to_p_track for the note off of a
\* note on: the first note off of the channel and note number at or behind
\* the note on, whose own time is the default.
RECURSIVE note_off_time(_, _, _, _, _)
note_off_time(track, i, channel, note_number, default) ==
    IF i > Len(track) THEN default
    ELSE IF /\ BitAnd(track[i].status_byte, 240) = 128
            /\ BitAnd(track[i].status_byte, 15) = channel
            /\ track[i].data_bytes[1] = note_number
         THEN track[i].time
    ELSE note_off_time(track, i + 1, channel, note_number, default)

\* What an iteration of __absolute_time_track_to_p_track appends for the
\* event at index i: nothing where the code continues (a note off, a system
\* message other than F0), one PTrackEvent otherwise.
p_track_events_of(track, i, event, status_type, delta_time) ==
    IF status_type = 128 THEN <<>>
    ELSE IF status_type = 144
    THEN <<PTrackEvent(event.status_byte, event.data_bytes, delta_time,
               Shr(note_off_time(track, i, BitAnd(event.status_byte, 15),
                                 event.data_bytes[1], event.time) - event.time, 2))>>
    ELSE IF status_type = 160 \/ status_type = 192
    THEN <<PTrackEvent(254, <<event.status_byte>> \o event.data_bytes, delta_time, None)>>
    ELSE IF status_type = 240
    THEN (IF event.status_byte # 240 THEN <<>>
          ELSE <<PTrackEvent(240, event.data_bytes, delta_time, None)>>)
    ELSE <<PTrackEvent(event.status_byte, event.data_bytes, delta_time, None)>>

\* __absolute_time_track_to_p_track: current_time advances only in an
\* iteration that appended; the End of Track event closes the list.
RECURSIVE absolute_time_track_to_p_track_loop(_, _, _, _)
RECURSIVE absolute_time_track_to_p_track_next(_, _, _, _, _)
absolute_time_track_to_p_track_next(track, i, current_time, p_events, appended) ==
    absolute_time_track_to_p_track_loop(track, i + 1,
        IF appended = <<>> THEN current_time ELSE track[i].time,
        p_events \o appended)

absolute_time_track_to_p_track_loop(track, i, current_time, p_events) ==
    IF i > Len(track) THEN Append(p_events, PTrackEvent(0, <<0, 0, 0>>, 0, None))
    ELSE absolute_time_track_to_p_track_next(track, i, current_time, p_events,
             p_track_events_of(track, i, track[i], BitAnd(track[i].status_byte, 240),
                               track[i].time - current_time))

absolute_time_track_to_p_track(track) ==
    absolute_time_track_to_p_track_loop(track, 1, 0, <<>>)

\* The loop of midi_to_p_tracks over range(PTrackChunk.PORTS): no entry of
\* the outer list is None, so that every port gets a chunk; the third and
\* the fourth chunk are numbered 3 and 4.
RECURSIVE midi_to_p_tracks_loop(_, _, _, _, _)
midi_to_p_tracks_loop(objects, refs, i, track_count, chunks) ==
    IF i = PORTS THEN chunks
    ELSE IF refs[i + 1] = None THEN midi_to_p_tracks_loop(objects, refs, i + 1, track_count, chunks)
    ELSE midi_to_p_tracks_loop(objects, refs, i + 1, track_count + 1,
             Append(chunks,
                 PTrackChunk(<<255, 80, 82, IF track_count >= 2 THEN track_count + 1 ELSE track_count>>,
                             absolute_time_track_to_p_track(objects[refs[i + 1]]))))

\* The MIDI files that are converted: at most MaxMidiTracks tracks, each
\* with at most MaxMidiMessages messages behind its midi_port message, or
\* without a midi_port message.
MaxMidiTracks == 2

MaxMidiMessages == 2

TICKS_PER_BEAT == 480

MidiPorts == {0, 1, 2}

\* note_on and note_off of note 60 on channel 0, a control change on
\* channel 1 twelve ticks (12.5 ms) behind its predecessor.
MidiMessages ==
    {MidiMessage("note_on", <<144, 60, 100>>, 0, None),
     MidiMessage("note_off", <<128, 60, 64>>, 480, None),
     MidiMessage("control_change", <<177, 7, 100>>, 12, None)}

MidiTracks ==
    {<<MidiPortMessage(port, 0)>> \o body :
        port \in MidiPorts, body \in SeqsOver(MidiMessages, MaxMidiMessages)}
    \cup SeqsOver(MidiMessages, MaxMidiMessages)

MidiFiles == {MidiFile(TICKS_PER_BEAT, tracks) : tracks \in SeqsOver(MidiTracks, MaxMidiTracks)}

InitMidiToPTracks ==
    /\ pc = "midi_to_p_tracks"
    /\ midi \in MidiFiles
    /\ list_objects = <<>>
    /\ absolute_time_tracks = <<>>
    /\ p_tracks = <<>>
    /\ IdleAfterConversion
    /\ IdleAdpcm
    /\ IdleRewrite
    /\ IdleTrackInfo
    /\ IdleInterpretation
    /\ IdleOkd
    /\ IdleVarInt
    /\ IdleScramble
    /\ IdlePTrack

othersConversion == <<varsAfterConversion, varsAdpcm, varsRewrite, varsTrackInfo, varsInterpretation, varsOkdFile, varsChunk, varsVarInt, varsScramble, varsPTrack>>

\* midi_to_p_tracks: the call of __midi_to_absolute_time_tracks
MidiToAbsoluteTimeTracks ==
    /\ pc = "midi_to_p_tracks"
    /\ \E st \in {midi_to_absolute_time_tracks(midi)} :
        /\ list_objects' = st.objects
        /\ absolute_time_tracks' = st.refs
    /\ pc' = "p_tracks_loop"
    /\ UNCHANGED <<midi, p_tracks, othersConversion>>

\* midi_to_p_tracks: the loop over the ports, and the return
MidiToPTracks ==
    /\ pc = "p_tracks_loop"
    /\ p_tracks' = midi_to_p_tracks_loop(list_objects, absolute_time_tracks, 0, 0, <<>>)
    /\ pc' = "done"
    /\ UNCHANGED <<midi, list_objects, absolute_time_tracks, othersConversion>>

NextMidiToPTracks == MidiToAbsoluteTimeTracks \/ MidiToPTracks

SpecMidiToPTracks == InitMidiToPTracks /\ [][NextMidiToPTracks]_vars

\* The messages of the tracks of a port, in absolute time: what a list of
\* the port's own holds after __midi_to_absolute_time_tracks.
RECURSIVE EventsOfPort(_, _, _, _)
EventsOfPort(converter, tracks, port, list) ==
    IF tracks = <<>> THEN SortByTime(<<>>, list)
    ELSE IF get_track_port(Head(tracks)) # port THEN EventsOfPort(converter, Tail(tracks), port, list)
    ELSE EventsOfPort(converter, Tail(tracks), port,
             midi_track_loop(converter, [objects |-> <<list>>, refs |-> [i \in 1 .. PORTS |-> 1]],
                             port, 0, Head(tracks)).objects[1])

\* C19: when midi_to_p_tracks has returned, the P-track of each port holds
\* exactly the events of the MIDI tracks whose midi_port is that port, in
\* time order and once each.
C19_PTrackPerPort ==
    (pc = "done" /\ midi # Nothing /\ p_tracks # <<>>) =>
        \A port \in 0 .. PORTS - 1 :
            p_tracks[port + 1].events =
                absolute_time_track_to_p_track(
                    EventsOfPort(MidiTimeConverter_load_from_midi(midi), midi.tracks, port, <<>>))


(***************************************************************************)
(* SpecOkdToMidi: okd_to_midi of okd/utils.py over the chunks of an OKD    *)
(* file, one chunk of its loop at a time, up to the check of the chunks    *)
(* it needs.                                                               *)
(***************************************************************************)

\* A local variable that no statement has assigned yet: reading it raises
\* UnboundLocalError.
Unbound == [class |-> "Unbound"]

\* An exception that leaves okd_to_midi, and the call it ends with.
RaisedWith(error, message) == [ok |-> FALSE, error |-> error, message |-> message]

Called(function) == [ok |-> TRUE, called |-> function]

\* The P-track info chunks, of which okd_to_midi looks at the class only.
InfoChunk(class, id) == [class |-> class, id |-> id, data |-> <<>>]

\* MTrackInterpretation.from_track as a whole: the loop over the absolute
\* time track from the locals it starts with.
RECURSIVE from_track_loop(_, _, _)
from_track_loop(st, track, i) ==
    IF i > Len(track) THEN st
    ELSE from_track_loop(from_track_event(st, track[i]), track, i + 1)

from_track_of(track) == from_track_loop(from_track_locals(track), track, 1)

MTrackInterpretation_from_track(track_chunk) ==
    from_track_of(MTrackChunk_absolute_time_track(track_chunk.events, 0, <<>>))

\* The locals of okd_to_midi in front of its loop: p_track_info = None and
\* p_tracks = [] are assigned, m_track_interpritation is not.
okd_to_midi_locals_init ==
    [m_track_interpritation |-> Unbound, p_track_info |-> Nothing, p_tracks |-> <<>>]

\* The body of `for chunk in okd.chunks`
okd_to_midi_chunk(locals, c) ==
    IF c.class = "MTrackChunk"
    THEN [locals EXCEPT !.m_track_interpritation = MTrackInterpretation_from_track(c)]
    ELSE IF c.class = "PTrackInfoChunk" THEN [locals EXCEPT !.p_track_info = c]
    ELSE IF c.class = "ExtendedPTrackInfoChunk" THEN [locals EXCEPT !.p_track_info = c]
    ELSE IF c.class = "P3TrackInfoChunk" THEN [locals EXCEPT !.p_track_info = c]
    ELSE IF c.class = "PTrackChunk" THEN [locals EXCEPT !.p_tracks = Append(@, c)]
    ELSE locals

\* `if m_track_interpritation is None or p_track_info is None or
\*  len(p_tracks) == 0: raise ValueError(...)`, then the call of
\* p_track_to_midi.  The operands are evaluated from the left: the read of
\* an unbound m_track_interpritation raises before anything is compared.
okd_to_midi_check(locals) ==
    IF locals.m_track_interpritation = Unbound
    THEN RaisedWith("UnboundLocalError", "m_track_interpritation")
    ELSE IF \/ locals.m_track_interpritation = Nothing
            \/ locals.p_track_info = Nothing
            \/ Len(locals.p_tracks) = 0
    THEN RaisedWith("ValueError", "Invalid input OKD. Needed M-Track, P-Track Info and P-Tracks.")
    ELSE Called("p_track_to_midi")

\* The chunk lists that are converted: at most MaxOkdChunks chunks, each an
\* M-track of two beats, one of the three P-track info flavours, a P-track
\* or a chunk of another kind.
MaxOkdChunks == 3

OkdChunks ==
    {MTrackChunk(ID_M_TRACK \o <<0>>, <<MTrackEvent(241, <<>>, 0), MTrackEvent(241, <<>>, 500)>>),
     InfoChunk("PTrackInfoChunk", <<89, 80, 84, 73>>),
     InfoChunk("ExtendedPTrackInfoChunk", <<89, 80, 88, 73>>),
     InfoChunk("P3TrackInfoChunk", <<89, 80, 51, 73>>),
     PTrackChunk(ID_P_TRACK \o <<0>>, <<PTrackEvent(0, <<0, 0, 0>>, 0, None)>>),
     GenericChunk(<<89, 75, 83, 48>>, <<1, 2>>)}

InitOkdToMidi ==
    /\ pc = "okd_to_midi"
    /\ okd_chunks \in SeqsOver(OkdChunks, MaxOkdChunks)
    /\ chunk_index = 0
    /\ okd_to_midi_locals = okd_to_midi_locals_init
    /\ okd_to_midi_outcome = Nothing
    /\ IdleAfterOkdToMidi
    /\ IdleConversion
    /\ IdleAdpcm
    /\ IdleRewrite
    /\ IdleTrackInfo
    /\ IdleInterpretation
    /\ IdleOkd
    /\ IdleVarInt
    /\ IdleScramble
    /\ IdlePTrack

othersOkdToMidi == <<varsAfterOkdToMidi, varsConversion, varsAdpcm, varsRewrite, varsTrackInfo, varsInterpretation, varsOkdFile, varsChunk, varsVarInt, varsScramble, varsPTrack>>

\* One iteration of `for chunk in okd.chunks`
OkdToMidiChunk ==
    /\ pc = "okd_to_midi"
    /\ chunk_index < Len(okd_chunks)
    /\ okd_to_midi_locals' = okd_to_midi_chunk(okd_to_midi_locals, okd_chunks[chunk_index + 1])
    /\ chunk_index' = chunk_index + 1
    /\ UNCHANGED <<pc, okd_chunks, okd_to_midi_outcome, othersOkdToMidi>>

\* The end of the loop: the check of the three locals
OkdToMidiCheck ==
    /\ pc = "okd_to_midi"
    /\ chunk_index = Len(okd_chunks)
    /\ okd_to_midi_outcome' = okd_to_midi_check(okd_to_midi_locals)
    /\ pc' = "done"
    /\ UNCHANGED <<okd_chunks, chunk_index, okd_to_midi_locals, othersOkdToMidi>>

NextOkdToMidi == OkdToMidiChunk \/ OkdToMidiCheck

SpecOkdToMidi == InitOkdToMidi /\ [][NextOkdToMidi]_vars

\* A chunk of one of the classes is among the chunks of the file.
HasChunkOf(classes) == \E i \in 1 .. Len(okd_chunks) : okd_chunks[i].class \in classes

\* C20: okd_to_midi ends with the ValueError 'Invalid input OKD' in each of
\* the three cases: the file has no M-track chunk, no P-track info chunk of
\* any flavour, or no P-track chunk.
C20_MissingChunkError ==
    (pc = "done" /\ okd_to_midi_outcome # Nothing) =>
        ((\/ ~HasChunkOf({"MTrackChunk"})
          \/ ~HasChunkOf({"PTrackInfoChunk", "ExtendedPTrackInfoChunk", "P3TrackInfoChunk"})
          \/ ~HasChunkOf({"PTrackChunk"}))
         => /\ ~okd_to_midi_outcome.ok
            /\ okd_to_midi_outcome.error = "ValueError")


(***************************************************************************)
(* SpecScan: the static readers of ChunkBase (_read_common, peek_header,   *)
(* __seek_header, index_chunk) on a stream of chunks with a tail, from     *)
(* every start position.                                                   *)
(***************************************************************************)

\* A target id of __seek_header; None is Nothing.
Bytes(b) == [class |-> "bytes", bytes |-> b]

\* ChunkBase.__seek_header: headers are peeked, and 8 + size bytes are
\* skipped with stream.seek(..., os.SEEK_CUR), until there is no header or
\* the header is the one looked for.  The outcome and stream.tell().
RECURSIVE seek_header(_, _, _)
RECURSIVE seek_header_next(_, _, _, _)
seek_header_next(s, pos, id, header) ==
    IF header = Nothing THEN [header |-> Nothing, pos |-> pos]
    ELSE IF id = Nothing THEN [header |-> header, pos |-> pos]
    ELSE IF header.id = id.bytes THEN [header |-> header, pos |-> pos]
    ELSE seek_header(s, pos + 8 + header.size, id)

seek_header(s, pos, id) == seek_header_next(s, pos, id, peek_header(s, pos))

\* index.append((last_position, position - last_position, id)) unless
\* last_position is -1
index_append(index, last_position, pos, id) ==
    IF last_position # -1 THEN Append(index, <<last_position, pos - last_position, id>>)
    ELSE index

\* ChunkBase.index_chunk: the loop over the headers __seek_header returns,
\* and the entry appended behind the loop.  The list and stream.tell().
RECURSIVE index_chunk_loop(_, _, _, _, _)
RECURSIVE index_chunk_next(_, _, _, _, _)
index_chunk_next(s, index, id, last_position, found) ==
    IF found.header = Nothing
    THEN [index |-> index_append(index, last_position, found.pos, id), pos |-> found.pos]
    ELSE index_chunk_loop(s, found.pos + 8 + found.header.size,
             index_append(index, last_position, found.pos, found.header.id),
             found.header.id, found.pos)

index_chunk_loop(s, pos, index, id, last_position) ==
    index_chunk_next(s, index, id, last_position, seek_header(s, pos, Nothing))

index_chunk(s, pos) == index_chunk_loop(s, pos, <<>>, <<>>, -1)

\* stream.tell() behind _read_common: behind the payload read, behind the
\* bytes of an end of file mark, at the start when the header is short
\* (the bytes read are given back).
read_common_position(s, pos, r) ==
    IF r.ok THEN r.pos
    ELSE IF Len(Read(s, pos, 8)) # 8 /\ Read(s, pos, 8) # END_OF_FILE_MARK THEN pos
    ELSE pos + Len(Read(s, pos, 8))

\* The scanned streams: at most MaxScanChunks chunks, then a tail.
MaxScanChunks == 2

\* Chunks of the stream: id, the size field of the header, the payload.
ScanChunk(id, size, payload) == [id |-> id, size |-> size, payload |-> payload]

\* A generic chunk without payload and one of two bytes, an M-track chunk
\* of two bytes, a YADD chunk of two bytes with the scrambled header
\* (4E 96 53 93, size 2 xor 0x17D717D7).
ScanChunks ==
    {ScanChunk(ID_GENERIC, 0, <<>>),
     ScanChunk(ID_GENERIC, 2, <<1, 2>>),
     ScanChunk(ID_M_TRACK \o <<0>>, 2, <<241, 0>>),
     ScanChunk(ID_SCRAMBLED_YADD, BitXor(2, 399972311), <<9, 8>>)}

\* Behind the chunks: nothing, the end of file mark, three bytes of a
\* header, a chunk that announces four bytes and has two.
ScanTails ==
    {<<>>, END_OF_FILE_MARK, <<89, 68, 73>>, ID_GENERIC \o <<0, 0, 0, 4>> \o <<1, 2>>}

ScanChunkBytes(c) == c.id \o ToBytes(c.size, 4) \o c.payload

ScanStream(list, tail) ==
    Flatten([i \in 1 .. Len(list) |-> ScanChunkBytes(list[i])]) \o tail

\* The ids __seek_header is asked for: none, the ids of the chunks, an id
\* no chunk has.
ScanTargets == {Nothing, Bytes(ID_GENERIC), Bytes(ID_M_TRACK \o <<0>>), Bytes(ID_YADD), Bytes(TRACK_ID)}

\* The size the header at a position announces, unmasked.
AnnouncedSize(s, pos) ==
    descramble_header(SubSeq(s, pos + 1, pos + 4), FromBytes(SubSeq(s, pos + 5, pos + 8))).size

\* The start positions of a scan: those from which every size field that
\* the readers meet is below 2^31, so that the model's integers hold it.
RECURSIVE SizesFit(_, _)
SizesFit(s, pos) ==
    IF Len(Read(s, pos, 8)) # 8 THEN TRUE
    ELSE IF s[pos + 5] >= 128 THEN FALSE
    ELSE SizesFit(s, pos + 8 + AnnouncedSize(s, pos))

StartPositions(s) == {pos \in 0 .. Len(s) : SizesFit(s, pos)}

InitScan ==
    /\ pc = "scan"
    /\ scan_chunks \in SeqsOver(ScanChunks, MaxScanChunks)
    /\ \E tail \in ScanTails :
        /\ scan_stream = ScanStream(scan_chunks, tail)
        /\ scan_start \in StartPositions(scan_stream)
    /\ scan_position = scan_start
    /\ scan_call = Nothing
    /\ scan_result = Nothing
    /\ IdleAfterScan
    /\ IdleOkdToMidi
    /\ IdleConversion
    /\ IdleAdpcm
    /\ IdleRewrite
    /\ IdleTrackInfo
    /\ IdleInterpretation
    /\ IdleOkd
    /\ IdleVarInt
    /\ IdleScramble
    /\ IdlePTrack

othersScan == <<varsAfterScan, varsOkdToMidi, varsConversion, varsAdpcm, varsRewrite, varsTrackInfo, varsInterpretation, varsOkdFile, varsChunk, varsVarInt, varsScramble, varsPTrack>>

\* ChunkBase._read_common(stream)
ReadCommon ==
    /\ pc = "scan"
    /\ scan_call' = [function |-> "_read_common", id |-> Nothing]
    /\ scan_result' = read_common(scan_stream, scan_start)
    /\ scan_position' = read_common_position(scan_stream, scan_start, scan_result')
    /\ pc' = "done"
    /\ UNCHANGED <<scan_chunks, scan_stream, scan_start, othersScan>>

\* ChunkBase.peek_header(stream)
PeekHeader ==
    /\ pc = "scan"
    /\ scan_call' = [function |-> "peek_header", id |-> Nothing]
    /\ scan_result' = peek_header(scan_stream, scan_start)
    /\ scan_position' = SeekCur(scan_start + Len(Read(scan_stream, scan_start, 8)),
                                -Len(Read(scan_stream, scan_start, 8)))
    /\ pc' = "done"
    /\ UNCHANGED <<scan_chunks, scan_stream, scan_start, othersScan>>

\* ChunkBase.__seek_header(stream, id)
SeekHeader ==
    /\ pc = "scan"
    /\ \E id \in ScanTargets :
        /\ scan_call' = [function |-> "__seek_header", id |-> id]
        /\ \E found \in {seek_header(scan_stream, scan_start, id)} :
            /\ scan_result' = found.header
            /\ scan_position' = found.pos
    /\ pc' = "done"
    /\ UNCHANGED <<scan_chunks, scan_stream, scan_start, othersScan>>

\* ChunkBase.index_chunk(stream)
IndexChunk ==
    /\ pc = "scan"
    /\ scan_call' = [function |-> "index_chunk", id |-> Nothing]
    /\ \E indexed \in {index_chunk(scan_stream, scan_start)} :
        /\ scan_result' = [index |-> indexed.index]
        /\ scan_position' = indexed.pos
    /\ pc' = "done"
    /\ UNCHANGED <<scan_chunks, scan_stream, scan_start, othersScan>>

NextScan == ReadCommon \/ PeekHeader \/ SeekHeader \/ IndexChunk

SpecScan == InitScan /\ [][NextScan]_vars

\* C21: when _read_common returns a chunk, its payload has the size the
\* header announced; with fewer bytes left in the stream the read fails.
C21_ShortPayloadFails ==
    (pc = "done" /\ scan_call # Nothing /\ scan_call.function = "_read_common" /\ scan_result.ok) =>
        Len(scan_result.payload) = AnnouncedSize(scan_stream, scan_start)

\* C22: peek_header, __seek_header with or without a target id, and
\* index_chunk leave the stream position where it was.
C22_ScansDoNotConsume ==
    (pc = "done" /\ scan_call # Nothing
        /\ scan_call.function \in {"peek_header", "__seek_header", "index_chunk"}) =>
        scan_position = scan_start

\* The index of a stream of whole chunks: per chunk the offset of its
\* header, 8 + its payload size, and its id, a scrambled YADD header
\* unmasked.
RECURSIVE ExpectedIndex(_, _, _)
ExpectedIndex(list, offset, index) ==
    IF list = <<>> THEN index
    ELSE ExpectedIndex(Tail(list), offset + 8 + Len(Head(list).payload),
             Append(index, <<offset, 8 + Len(Head(list).payload),
                             IF Head(list).id = ID_SCRAMBLED_YADD THEN ID_YADD ELSE Head(list).id>>))

\* C24: index_chunk from the start of a stream of whole chunks returns one
\* entry per chunk, in order: offset of the header, 8 + payload size, and
\* the id of that chunk.
C24_IndexEntryPerChunk ==
    (pc = "done" /\ scan_call # Nothing /\ scan_call.function = "index_chunk"
        /\ scan_start = 0
        /\ scan_stream \in {ScanStream(scan_chunks, <<>>), ScanStream(scan_chunks, END_OF_FILE_MARK)}) =>
        scan_result.index = ExpectedIndex(scan_chunks, 0, <<>>)


(***************************************************************************)
(* SpecOkdScrambled: OkdFile.write(stream, should_scramble) with either    *)
(* flag on one of the files of a list, two of which may hold the same      *)
(* header object as the files midi_to_okds returns, then OkdFile.read of   *)
(* the bytes written.                                                      *)
(***************************************************************************)

\* The value of a file object: its header object and its chunks.
FileValue(objects, file) == [header |-> objects[file.header], chunks |-> file.chunks]

\* OkdFile.write: self.header.length and self.header.encryption_mode as the
\* method sets them, for either value of should_scramble.
OkdFile_write_set_header(file, should_scramble) ==
    [file.header EXCEPT
        !.length = FIXED_PART_LENGTH + Len(optional_data_buffer(file.header))
                    + Len(OkdFile_chunks_buffer(file.chunks).bytes) - 8,
        !.encryption_mode = IF should_scramble THEN 1 ELSE 0]

\* OkdFile.write, from the header buffer on: header and chunks are each
\* scrambled from the index chosen, or written as they are; the end of file
\* mark is written as it is.
OkdFile_write_buffers(header_buffer, chunks_buffer, should_scramble, index) ==
    IF should_scramble
    THEN scramble(header_buffer, index, None).out \o scramble(chunks_buffer, index, None).out
            \o END_OF_FILE_MARK
    ELSE header_buffer \o chunks_buffer \o END_OF_FILE_MARK

OkdFile_write_flag(file, should_scramble, index) ==
    OkdFile_write_buffers(OkdHeaderBase_write(OkdFile_write_set_header(file, should_scramble)),
                          OkdFile_chunks_buffer(file.chunks).bytes, should_scramble, index)

\* detect_scramble_pattern_index: None when the stream starts with the
\* magic bytes, else the first index whose pattern pair is the XOR of the
\* first four bytes with the magic bytes; RuntimeError when there is none
\* or fewer than four bytes.  The 32 bit candidate is held as its two 16 bit
\* halves, OKD_SCRAMBLE_PATTERN[i] above OKD_SCRAMBLE_PATTERN[i + 1].
candidated_pattern(i) ==
    <<OKD_SCRAMBLE_PATTERN(i), OKD_SCRAMBLE_PATTERN(IF i = 255 THEN 0 ELSE i + 1)>>

\* expected_pattern, as its upper and its lower 16 bits
expected_pattern(buffer) ==
    <<BitXor(FromBytes2(buffer[1], buffer[2]), FromBytes2(MAGIC_BYTES[1], MAGIC_BYTES[2])),
      BitXor(FromBytes2(buffer[3], buffer[4]), FromBytes2(MAGIC_BYTES[3], MAGIC_BYTES[4]))>>

detect_scramble_pattern_index(s) ==
    IF Len(Read(s, 0, 4)) # 4 THEN Raised("RuntimeError")
    ELSE IF Read(s, 0, 4) = MAGIC_BYTES THEN [ok |-> TRUE, index |-> None]
    ELSE IF \A i \in 0 .. 255 : candidated_pattern(i) # expected_pattern(Read(s, 0, 4))
    THEN Raised("RuntimeError")
    ELSE [ok |-> TRUE,
          index |-> CHOOSE i \in 0 .. 255 :
                        /\ candidated_pattern(i) = expected_pattern(Read(s, 0, 4))
                        /\ \A j \in 0 .. i - 1 : candidated_pattern(j) # expected_pattern(Read(s, 0, 4))]

\* OkdHeaderBase._read_common with a scramble pattern index: the fixed part
\* is descrambled from the index, the optional data from the index the
\* first descramble returned; read_okd_header then parses the plain bytes.
read_header_variable_part(s, fixed, variable) ==
    IF ~variable.ok THEN Raised("RuntimeError")
    ELSE read_okd_header(fixed.out \o variable.out, 0)

read_header_fixed_part(s, fixed) ==
    IF ~fixed.ok THEN Raised("RuntimeError")
    ELSE IF SubSeq(fixed.out, 1, 4) # MAGIC_BYTES THEN Raised("ValueError")
    ELSE read_header_variable_part(s, fixed,
            descramble(SubSeq(s, FIXED_PART_LENGTH + 1, Len(s)), fixed.index,
                       FromBytes(SubSeq(fixed.out, 37, 40))))

read_okd_header_descrambled(s, index) ==
    read_header_fixed_part(s, descramble(s, index, FIXED_PART_LENGTH))

\* OkdFile.read of a scrambled stream, behind the header: scrambled_length
\* bytes are descrambled from the index that was detected, plaintext_length
\* bytes are copied, and the chunks are read from the result.
scrambled_length(header) ==
    IF header.adpcm_offset = 0
    THEN (header.length + 8) - (FIXED_PART_LENGTH + optional_data_buffer_size(header.class))
    ELSE header.adpcm_offset - (FIXED_PART_LENGTH + optional_data_buffer_size(header.class))

plaintext_length(header) ==
    IF header.adpcm_offset = 0 THEN 0 ELSE (header.length + 8) - header.adpcm_offset

read_scrambled_chunks(rest, header, descrambled_part) ==
    IF ~descrambled_part.ok THEN Raised("RuntimeError")
    ELSE OkdFile_result(header,
            OkdFile_read_chunks(
                descrambled_part.out
                    \o Read(rest, Len(descrambled_part.out),
                            IF plaintext_length(header) < 0 THEN 0 ELSE plaintext_length(header)),
                0, <<>>))

read_scrambled_body(s, index, header) ==
    IF ~header.ok THEN header
    ELSE IF optional_data_buffer_size(header.header.class) = None
    THEN Raised("NotImplementedError")
    ELSE read_scrambled_chunks(SubSeq(s, header.pos + 1, Len(s)), header.header,
            descramble(SubSeq(s, header.pos + 1, Len(s)), index, scrambled_length(header.header)))

\* OkdFile.read of a stream without SPRC header
OkdFile_read_detected(s, detected) ==
    IF ~detected.ok THEN detected
    ELSE IF detected.index = None THEN OkdFile_read(s)
    ELSE read_scrambled_body(s, detected.index, read_okd_header_descrambled(s, detected.index))

\* The indices choose_scramble_pattern_index returns: randint(0x00, 0xFF),
\* of which the first, the last and two in between are taken.
PatternIndices == {0, 1, 128, 255}

\* Generic chunks of even payload length.
EvenChunks ==
    {GenericChunk(ID_GENERIC, <<>>),
     GenericChunk(ID_GENERIC, <<0, 7>>),
     GenericChunk(<<89, 75, 83, 48>>, <<1, 2, 3, 4>>)}

\* One file, or two files that hold the same header object, as
\* playing_okd and p3_okd of midi_to_okds.
OkdFileLists ==
    {<<[header |-> 1, chunks |-> chunks]>> : chunks \in SeqsOver(EvenChunks, MaxChunks)}
    \cup {<<[header |-> 1, chunks |-> <<first>>], [header |-> 1, chunks |-> <<second>>]>> :
            first \in EvenChunks, second \in EvenChunks}

InitOkdScrambled ==
    /\ pc = "write_flag"
    /\ header_objects \in {<<header>> : header \in Headers}
    /\ okd_files \in OkdFileLists
    /\ files_before = [i \in 1 .. Len(okd_files) |-> FileValue(header_objects, okd_files[i])]
    /\ write_call = Nothing
    /\ written_stream = <<>>
    /\ read_back = Nothing
    /\ IdleAfterScrambled
    /\ IdleScan
    /\ IdleOkdToMidi
    /\ IdleConversion
    /\ IdleAdpcm
    /\ IdleRewrite
    /\ IdleTrackInfo
    /\ IdleInterpretation
    /\ IdleOkd
    /\ IdleVarInt
    /\ IdleScramble
    /\ IdlePTrack

othersScrambled == <<varsAfterScrambled, varsScan, varsOkdToMidi, varsConversion, varsAdpcm, varsRewrite, varsTrackInfo, varsInterpretation, varsOkdFile, varsChunk, varsVarInt, varsScramble, varsPTrack>>

\* okd_files[file].write(stream, should_scramble) on an empty stream
OkdFileWriteFlag ==
    /\ pc = "write_flag"
    /\ \E file \in 1 .. Len(okd_files), should_scramble \in BOOLEAN :
        \E index \in IF should_scramble THEN PatternIndices ELSE {None} :
            /\ write_call' = [file |-> file, should_scramble |-> should_scramble, index |-> index]
            /\ header_objects' =
                    [header_objects EXCEPT ![okd_files[file].header] =
                        OkdFile_write_set_header(FileValue(header_objects, okd_files[file]),
                                                 should_scramble)]
            /\ written_stream' =
                    OkdFile_write_flag(FileValue(header_objects, okd_files[file]),
                                       should_scramble, index)
    /\ pc' = "read_back"
    /\ UNCHANGED <<okd_files, files_before, read_back, othersScrambled>>

\* OkdFile.read(stream) after stream.seek(0)
OkdFileReadBack ==
    /\ pc = "read_back"
    /\ \E detected \in {detect_scramble_pattern_index(written_stream)} :
        read_back' = [detected |-> detected,
                      outcome |-> OkdFile_read_detected(written_stream, detected)]
    /\ pc' = "done"
    /\ UNCHANGED <<header_objects, okd_files, files_before, write_call, written_stream, othersScrambled>>

NextOkdScrambled == OkdFileWriteFlag \/ OkdFileReadBack

SpecOkdScrambled == InitOkdScrambled /\ [][NextOkdScrambled]_vars

\* C23: after OkdFile.write with either flag, the header fields and the
\* chunks of every file, the written one and the one that shares its
\* header, are what they were before the call.
C23_WriteLeavesFileUnchanged ==
    (pc \in {"read_back", "done"} /\ write_call # Nothing) =>
        \A i \in 1 .. Len(okd_files) : FileValue(header_objects, okd_files[i]) = files_before[i]

\* C27: OkdFile.read of the bytes of a scrambled write, descrambling with
\* the index the writer chose, returns the header fields of the file (the
\* version up to its NUL padding, encryption_mode 1) and its chunks, for a
\* zero and a non-zero adpcm_offset.
C27_ScrambledRoundTrip ==
    (pc = "done" /\ write_call # Nothing /\ write_call.should_scramble
        /\ read_back.detected.ok /\ read_back.detected.index = write_call.index) =>
        /\ read_back.outcome.ok
        /\ read_back.outcome.file.header =
                [header_objects[okd_files[write_call.file].header] EXCEPT
                    !.version = ljust(@, 16), !.encryption_mode = 1]
        /\ read_back.outcome.file.chunks = okd_files[write_call.file].chunks


(***************************************************************************)
(* SpecMsToTicks: MidiTimeConverter.ms_to_ticks of two times under one     *)
(* tempo list.  The floats of the code are held as exact fractions.        *)
(***************************************************************************)

\* A number ms_to_ticks returns: the int of round(), or the float of the
\* early return, held as numerator / denominator.
Fraction(numerator, denominator) == [numerator |-> numerator, denominator |-> denominator]

\* _calculate_ticks_at_tempo: (duration_ms * 1000 / (60_000_000 / tempo_bpm))
\* * ppqn, which is duration_ms * tempo_bpm * ppqn / 60000; the numerator.
MS_PER_MINUTE == 60000

calculate_ticks_at_tempo(ppqn, duration_ms, tempo_bpm) == duration_ms * tempo_bpm * ppqn

\* The end of section i: the position of the next change, or time_ms, and
\* never behind time_ms.
section_end(changes, i, time_ms) ==
    IF i < Len(changes) /\ changes[i + 1][1] < time_ms THEN changes[i + 1][1] ELSE time_ms

\* The loop of ms_to_ticks over the tempo sections from section i on;
\* total_ticks is held as its numerator over MS_PER_MINUTE.
RECURSIVE ms_to_ticks_sections(_, _, _, _, _)
ms_to_ticks_sections(ppqn, changes, i, time_ms, total_ticks) ==
    IF i > Len(changes) THEN total_ticks
    ELSE LET duration == section_end(changes, i, time_ms) - changes[i][1]
             total == IF duration > 0
                      THEN total_ticks + calculate_ticks_at_tempo(ppqn, duration, changes[i][2])
                      ELSE total_ticks
         IN  IF section_end(changes, i, time_ms) = time_ms THEN total
             ELSE ms_to_ticks_sections(ppqn, changes, i + 1, time_ms, total)

MidiTimeConverter_ms_to_ticks(converter, ms) ==
    IF converter.tempo_changes = <<>> THEN Raised("ValueError")
    ELSE IF ms < converter.tempo_changes[1][1]
    THEN [ok |-> TRUE,
          ticks |-> Fraction(calculate_ticks_at_tempo(converter.ppqn, ms,
                                                      converter.tempo_changes[1][2]),
                             MS_PER_MINUTE)]
    ELSE [ok |-> TRUE,
          ticks |-> Fraction(round(ms_to_ticks_sections(converter.ppqn, converter.tempo_changes,
                                                        1, ms, 0),
                                   MS_PER_MINUTE), 1)]

\* a <= b of two numbers ms_to_ticks returned
NumberLeq(a, b) ==
    IF a.denominator = b.denominator THEN a.numerator <= b.numerator
    ELSE a.numerator * b.denominator <= b.numerator * a.denominator

\* The positions and tempos of the changes, and the times converted.
MaxTempoChanges == 2

TempoPositions == {0, 500, 1000}

TempoBpms == {60, 120, 125}

ConvertedTimes == {0, 1, 499, 500, 999, 1000, 1500}

\* The lists add_tempo_change builds: ordered by position.
TempoChangeLists ==
    {changes \in SeqsOver(TempoPositions \X TempoBpms, MaxTempoChanges) :
        /\ changes # <<>>
        /\ \A i \in 1 .. Len(changes) - 1 : changes[i][1] <= changes[i + 1][1]}

InitMsToTicks ==
    /\ pc = "ms_to_ticks"
    /\ tempo_changes \in TempoChangeLists
    /\ times_ms \in {<<t1, t2>> : t1 \in ConvertedTimes, t2 \in ConvertedTimes}
    /\ times_ms[1] <= times_ms[2]
    /\ ticks_returned = <<>>
    /\ IdleAfterTicks
    /\ IdleScrambled
    /\ IdleScan
    /\ IdleOkdToMidi
    /\ IdleConversion
    /\ IdleAdpcm
    /\ IdleRewrite
    /\ IdleTrackInfo
    /\ IdleInterpretation
    /\ IdleOkd
    /\ IdleVarInt
    /\ IdleScramble
    /\ IdlePTrack

othersTicks == <<varsAfterTicks, varsScrambled, varsScan, varsOkdToMidi, varsConversion, varsAdpcm, varsRewrite, varsTrackInfo, varsInterpretation, varsOkdFile, varsChunk, varsVarInt, varsScramble, varsPTrack>>

\* midi_time_converter.ms_to_ticks(T1) and midi_time_converter.ms_to_ticks(T2)
MsToTicks ==
    /\ pc = "ms_to_ticks"
    /\ ticks_returned' = [i \in 1 .. 2 |->
                    MidiTimeConverter_ms_to_ticks(
                        [ppqn |-> TICKS_PER_BEAT, tempo_changes |-> tempo_changes], times_ms[i])]
    /\ pc' = "done"
    /\ UNCHANGED <<tempo_changes, times_ms, othersTicks>>

NextMsToTicks == MsToTicks

SpecMsToTicks == InitMsToTicks /\ [][NextMsToTicks]_vars

\* C25: under every non-empty ordered tempo list, also one whose first
\* change lies behind time 0, T1 <= T2 gives ms_to_ticks(T1) <=
\* ms_to_ticks(T2).
C25_MsToTicksMonotone ==
    (pc = "done" /\ ticks_returned # <<>>) =>
        /\ ticks_returned[1].ok
        /\ ticks_returned[2].ok
        /\ NumberLeq(ticks_returned[1].ticks, ticks_returned[2].ticks)


\* The times of the beat markers of the track from_track was handed
BeatMarkerTimes ==
    {m_absolute_time_track[i].time : i \in {j \in 1 .. Len(m_absolute_time_track) :
                                            m_absolute_time_track[j].status_byte \in {241, 242}}}

\* C28: from_track of an M-track with beat markers at two distinct times or
\* more returns a non-empty tempos list, and ms_to_ticks of the converter
\* p_track_to_midi fills from it does not fail for want of a tempo.
C28_TemposFromBeats ==
    (pc = "done" /\ interpretation # Nothing /\ Cardinality(BeatMarkerTimes) >= 2) =>
        /\ interpretation.tempos # <<>>
        /\ MidiTimeConverter_ms_to_ticks(
                [ppqn |-> TICKS_PER_BEAT, tempo_changes |-> interpretation.tempos], 0).ok


(***************************************************************************)
(* SpecTrackParse: MTrackChunk.from_generic and PTrackChunk.from_generic   *)
(* of payloads with and without the end-of-track mark.                     *)
(***************************************************************************)

\* The payload bytes: a delta time or data byte, status bytes without and
\* with data bytes, the SysEx status byte and terminator of the flavour and
\* the other byte with bit 7.
MaxTrackPayloadLen == 4

MTrackPayloadBytes == {0, 241, 243, 255, 254}

PTrackPayloadBytes == {0, 64, 144, 240, 247, 254}

InitTrackParse ==
    /\ pc = "from_generic"
    /\ parsed_generic \in
            {GenericChunk(ID_M_TRACK \o <<0>>, payload) :
                payload \in SeqsOver(MTrackPayloadBytes, MaxTrackPayloadLen)}
            \cup {GenericChunk(ID_P_TRACK \o <<0>>, payload) :
                payload \in SeqsOver(PTrackPayloadBytes, MaxTrackPayloadLen)}
    /\ parse_outcome = Nothing
    /\ IdleAfterParse
    /\ IdleTicks
    /\ IdleScrambled
    /\ IdleScan
    /\ IdleOkdToMidi
    /\ IdleConversion
    /\ IdleAdpcm
    /\ IdleRewrite
    /\ IdleTrackInfo
    /\ IdleInterpretation
    /\ IdleOkd
    /\ IdleVarInt
    /\ IdleScramble
    /\ IdlePTrack

othersParse == <<varsAfterParse, varsTicks, varsScrambled, varsScan, varsOkdToMidi, varsConversion, varsAdpcm, varsRewrite, varsTrackInfo, varsInterpretation, varsOkdFile, varsChunk, varsVarInt, varsScramble, varsPTrack>>

\* MTrackChunk.from_generic(generic)
MTrackFromGeneric ==
    /\ pc = "from_generic"
    /\ SubSeq(parsed_generic.id, 1, 3) = ID_M_TRACK
    /\ parse_outcome' = MTrackChunk_from_generic(parsed_generic)
    /\ pc' = "done"
    /\ UNCHANGED <<parsed_generic, othersParse>>

\* PTrackChunk.from_generic(generic)
PTrackFromGeneric ==
    /\ pc = "from_generic"
    /\ SubSeq(parsed_generic.id, 1, 3) = ID_P_TRACK
    /\ parse_outcome' = PTrackChunk_from_generic(parsed_generic)
    /\ pc' = "done"
    /\ UNCHANGED <<parsed_generic, othersParse>>

NextTrackParse == MTrackFromGeneric \/ PTrackFromGeneric

SpecTrackParse == InitTrackParse /\ [][NextTrackParse]_vars

\* C26: from_generic of either track flavour ends on every payload: it
\* returns its events or raises the error of a malformed payload, and never
\* comes back to a position it has read an event at (the outcome
\* MemoryError of the model).
C26_FromGenericTerminates ==
    (pc = "done" /\ parse_outcome # Nothing) =>
        (parse_outcome.ok \/ parse_outcome.error = "ValueError")


(***************************************************************************)
(* SpecPTrackToMidi: p_track_to_midi, one action per event of its loop,    *)
(* with the MMT TG devices that turn SysEx parameter changes into control  *)
(* and program changes.                                                    *)
(* mmt_tg/mmt_tg.py, mmt_tg/midi_parameter_change_table.py,                *)
(* p_track_conversion.py                                                   *)
(***************************************************************************)
PARTS_PER_PORT == 16

\* MultiPartEntry.PART_NUMBER_TO_ENTRY_INDEX_TABLE and
\* MultiPartEntry.ENTRY_INDEX_TO_PART_NUMBER_TABLE; index i of the code is
\* element i + 1.
PART_NUMBER_TO_ENTRY_INDEX_TABLE ==
    <<1, 2, 3, 4, 5, 6, 7, 8, 9, 0, 10, 11, 12, 13, 14, 15,
      17, 18, 19, 20, 21, 22, 23, 24, 25, 16, 26, 27, 28, 29, 30, 31>>

ENTRY_INDEX_TO_PART_NUMBER_TABLE ==
    <<9, 0, 1, 2, 3, 4, 5, 6, 7, 8, 10, 11, 12, 13, 14, 15,
      25, 16, 17, 18, 19, 20, 21, 22, 23, 24, 26, 27, 28, 29, 30, 31>>

\* The address of a multi part entry: 0x008000 + (entry_index << 7)
entry_address(entry_index) == 32768 + entry_index * 128

\* The fields of MultiPartEntry that to_mido_messages turns into messages,
\* in the order of the dataclass, with their offset in the entry and the
\* value initialize_state gives them.  The other fields of the entry yield
\* no message.
MessageFields ==
    <<<<"bank_select_msb", 1, 0>>, <<"bank_select_lsb", 2, 0>>, <<"program_number", 3, 0>>,
      <<"volume", 27, 100>>, <<"pan", 30, 64>>, <<"chorus_send", 36, 0>>,
      <<"reverb_send", 37, 64>>, <<"variation_send", 38, 0>>, <<"vibrato_rate", 39, 64>>,
      <<"vibrato_depth", 40, 64>>, <<"vibrato_delay", 46, 64>>,
      <<"bend_pitch_control", 65, 66>>>>

\* native_parameter_memory holds the addresses written since
\* initialize_state; every other address has its initial value.
initialize_state == [address \in {} |-> 0]

memory_read(memory, address, initial) ==
    IF address \in DOMAIN memory THEN memory[address] ELSE initial

\* self.native_parameter_memory[address : address + data_length] = data
memory_write(memory, address, data) ==
    [a \in DOMAIN memory \cup {address + i - 1 : i \in 1 .. Len(data)} |->
        IF a >= address /\ a < address + Len(data) THEN data[a - address + 1] ELSE memory[a]]

\* MultiPartEntry.from_memory: the (field, value) items of the entry
MultiPartEntry_from_memory(memory, part_number) ==
    [i \in 1 .. Len(MessageFields) |->
        <<MessageFields[i][1],
          memory_read(memory,
                      entry_address(PART_NUMBER_TO_ENTRY_INDEX_TABLE[part_number + 1])
                        + MessageFields[i][2],
                      MessageFields[i][3])>>]

\* MmtTg.__is_native_parameter_change_message
is_native_parameter_change_message(event) ==
    /\ Len(event.data_bytes) >= 9
    /\ event.status_byte = 240
    /\ event.data_bytes[Len(event.data_bytes)] = 247
    /\ event.data_bytes[1] = 67

\* MmtTg.effecting_multi_part_number: None, the part number of the entry
\* addressed, or the IndexError of the table lookup
effecting_multi_part_number(event) ==
    IF ~is_native_parameter_change_message(event) THEN [ok |-> TRUE, value |-> None]
    ELSE IF event.data_bytes[4] # 2 THEN [ok |-> TRUE, value |-> None]
    ELSE IF event.data_bytes[5] >= Len(ENTRY_INDEX_TO_PART_NUMBER_TABLE)
    THEN Raised("IndexError")
    ELSE [ok |-> TRUE, value |-> ENTRY_INDEX_TO_PART_NUMBER_TABLE[event.data_bytes[5] + 1]]

\* MmtTg.receive_sysex_message of a native parameter change: the memory
\* after it, or its ValueError
receive_native_parameter_change_message(memory, event) ==
    IF BitAnd(event.data_bytes[2], 240) # 16 THEN Raised("ValueError")
    ELSE IF event.data_bytes[4] * 16384 + event.data_bytes[5] * 128 + event.data_bytes[6] = 127
    THEN [ok |-> TRUE, memory |-> initialize_state]
    ELSE [ok |-> TRUE,
          memory |-> memory_write(memory,
                        event.data_bytes[4] * 16384 + event.data_bytes[5] * 128
                            + event.data_bytes[6],
                        SubSeq(event.data_bytes, 7, Len(event.data_bytes) - 2))]

\* mido.Message of a control or program change: the data value must be
\* within 0 .. 127
control_change(channel, control, data_value, time) ==
    [type |-> "control_change", channel |-> channel, control |-> control,
     value |-> data_value, time |-> time]

program_change(channel, program, time) ==
    [type |-> "program_change", channel |-> channel, program |-> program, time |-> time]

\* The control number to_mido_messages gives a field
FieldControl(key) ==
    CASE key = "bank_select_msb" -> 0
      [] key = "bank_select_lsb" -> 32
      [] key = "volume" -> 7
      [] key = "pan" -> 10
      [] key = "chorus_send" -> 93
      [] key = "reverb_send" -> 91
      [] key = "variation_send" -> 94
      [] key = "vibrato_rate" -> 76
      [] key = "vibrato_depth" -> 77
      [] key = "vibrato_delay" -> 78

\* The messages to_mido_messages appends for one item: every message but
\* the second and third of bend_pitch_control carries delta_time
item_messages(item, part_number, delta_time, zero) ==
    IF item[1] = "program_number" THEN <<program_change(part_number, item[2], delta_time)>>
    ELSE IF item[1] = "bend_pitch_control"
    THEN <<control_change(part_number, 101, 0, delta_time),
           control_change(part_number, 100, 0, zero),
           control_change(part_number, 6, item[2] - 64, zero)>>
    ELSE <<control_change(part_number, FieldControl(item[1]), item[2], delta_time)>>

\* MultiPartEntry.to_mido_messages of the items in the order given; the
\* ValueError of mido for a value below zero
RECURSIVE to_mido_messages_loop(_, _, _, _)
to_mido_messages_loop(items, part_number, delta_time, zero) ==
    IF items = <<>> THEN <<>>
    ELSE item_messages(Head(items), part_number, delta_time, zero)
            \o to_mido_messages_loop(Tail(items), part_number, delta_time, zero)

to_mido_messages(items, part_number, delta_time, zero) ==
    IF \E i \in 1 .. Len(items) : items[i][1] = "bend_pitch_control" /\ items[i][2] < 64
    THEN Raised("ValueError")
    ELSE [ok |-> TRUE, messages |-> to_mido_messages_loop(items, part_number, delta_time, zero)]


\* int - float and int + float of Python on the numbers ms_to_ticks returns
NumberSub(a, b) ==
    IF a.denominator = b.denominator THEN Fraction(a.numerator - b.numerator, a.denominator)
    ELSE IF a.denominator = 1
    THEN Fraction(a.numerator * b.denominator - b.numerator, b.denominator)
    ELSE Fraction(a.numerator - b.numerator * a.denominator, a.denominator)

NumberAdd(a, b) == NumberSub(a, Fraction(0 - b.numerator, b.denominator))

Zero == Fraction(0, 1)

\* PTrackAbsoluteTimeMetaEvent(status_byte, data_bytes, track, time): an
\* event without port
PTrackAbsoluteTimeMetaEvent(status_byte, data_bytes, track, time) ==
    [status_byte |-> status_byte, data_bytes |-> data_bytes, track |-> track, time |-> time]

is_meta_event(event) == "port" \notin DOMAIN event

\* int(math.log2(denominator)) of a power of two
RECURSIVE log2(_)
log2(n) == IF n <= 1 THEN 0 ELSE 1 + log2(n \div 2)

\* The set_tempo and time_signature events p_track_to_midi appends
tempo_events(tempos) ==
    [i \in 1 .. Len(tempos) |->
        PTrackAbsoluteTimeMetaEvent(81, <<3>> \o ToBytes(round(60000000, tempos[i][2]), 3),
                                    0, tempos[i][1])]

time_signature_events(time_signatures) ==
    [i \in 1 .. Len(time_signatures) |->
        PTrackAbsoluteTimeMetaEvent(88,
            <<4, time_signatures[i][2], log2(time_signatures[i][3]), 24, 8>>,
            0, time_signatures[i][1])]

\* The messages of a new track: the midi_port meta message and the track
\* setup messages of the device's entry
midi_port_message(port) == [type |-> "midi_port", port |-> port, time |-> Zero]

track_setup(port, channel) ==
    <<midi_port_message(port)>>
        \o to_mido_messages(
                MultiPartEntry_from_memory(initialize_state,
                                           (port \div 2) * PARTS_PER_PORT + channel),
                (port * PARTS_PER_PORT + channel) % CHANNELS_PER_PORT, Zero, Zero).messages

midi_tracks_setup ==
    [track \in 1 .. PORTS * CHANNELS_PER_PORT |->
        track_setup((track - 1) \div CHANNELS_PER_PORT, (track - 1) % CHANNELS_PER_PORT)]

\* The messages p_track_to_midi appends for an event
meta_message(event, time) ==
    [type |-> "meta", bytes |-> <<255, event.status_byte>> \o event.data_bytes, time |-> time]

text_message(event, time) ==
    [type |-> "text", text |-> <<event.status_byte>> \o event.data_bytes, time |-> time]

midi_message(event, time) ==
    [type |-> "message", bytes |-> <<event.status_byte>> \o event.data_bytes, time |-> time]

\* mido.Message.from_bytes accepts the bytes of the event: a channel
\* message with the data bytes of its type, or a SysEx message up to 0xF7
mido_accepts(event) ==
    IF event.status_byte = 240
    THEN /\ event.data_bytes # <<>>
         /\ event.data_bytes[Len(event.data_bytes)] = 247
         /\ is_data_bytes(SubSeq(event.data_bytes, 1, Len(event.data_bytes) - 1))
    ELSE /\ event.status_byte >= 128
         /\ event.status_byte < 240
         /\ is_data_bytes(event.data_bytes)
         /\ Len(event.data_bytes) =
                (IF BitAnd(event.status_byte, 240) \in {192, 208} THEN 1 ELSE 2)

append_messages(tracks, track, messages) == [tracks EXCEPT ![track + 1] = @ \o messages]

\* The device of a port: midi_device_1 for the ports 0 and 1
device_of(port) == IF port < 2 THEN 1 ELSE 2

\* dict(asdict(after_sysex).items() - asdict(before_sysex).items()): the
\* set of the items that changed
multi_part_diff(before_sysex, after_sysex) ==
    {after_sysex[i] : i \in 1 .. Len(after_sysex)}
        \ {before_sysex[i] : i \in 1 .. Len(before_sysex)}

\* The orders a dict built from a set of items can have
Orderings(items) ==
    {order \in [1 .. Cardinality(items) -> items] :
        \A i, j \in 1 .. Cardinality(items) : order[i] = order[j] => i = j}

\* The items a SysEx event changes in its device, the empty set when it
\* changes none or fails before
changed_items(devices, event, part_number, received) ==
    IF ~received.ok THEN {}
    ELSE multi_part_diff(MultiPartEntry_from_memory(devices[device_of(event.port)], part_number),
                         MultiPartEntry_from_memory(received.memory, part_number))

sysex_changed_items(devices, event) ==
    IF is_meta_event(event) \/ event.status_byte # 240 THEN {}
    ELSE IF ~effecting_multi_part_number(event).ok THEN {}
    ELSE IF effecting_multi_part_number(event).value = None THEN {}
    ELSE changed_items(devices, event, effecting_multi_part_number(event).value,
            receive_native_parameter_change_message(devices[device_of(event.port)], event))

\* The end of an iteration: the text of a SysEx event when sysex_to_text
\* is set, else the message mido builds, or nothing when mido rejects it
event_message(st, event, delta_time, sysex_to_text) ==
    IF event.status_byte = 240 /\ sysex_to_text
    THEN [st EXCEPT !.tracks = append_messages(@, event.track, <<text_message(event, delta_time)>>)]
    ELSE IF ~mido_accepts(event) THEN st
    ELSE [st EXCEPT !.tracks = append_messages(@, event.track, <<midi_message(event, delta_time)>>)]

\* The SysEx event that effects a part: the device receives it, and the
\* messages of the changed items go to track port * 16 + part_number
sysex_part_messages(st, event, delta_time, sysex_to_text, part_number, received, messages) ==
    IF ~received.ok THEN received
    ELSE IF event.port * PARTS_PER_PORT + part_number >= Len(st.tracks) THEN Raised("IndexError")
    ELSE IF ~messages.ok THEN messages
    ELSE event_message(
            [st EXCEPT !.devices[device_of(event.port)] = received.memory,
                       !.tracks = append_messages(@, event.port * PARTS_PER_PORT + part_number,
                                                  messages.messages)],
            event, delta_time, sysex_to_text)

sysex_event(st, event, delta_time, sysex_to_text, part_number, order) ==
    IF ~part_number.ok THEN part_number
    ELSE IF part_number.value = None THEN event_message(st, event, delta_time, sysex_to_text)
    ELSE sysex_part_messages(st, event, delta_time, sysex_to_text, part_number.value,
            receive_native_parameter_change_message(st.devices[device_of(event.port)], event),
            to_mido_messages(order, part_number.value % CHANNELS_PER_PORT, delta_time, Zero))

\* One iteration of `for event in absolute_time_track`, from delta_time on
event_at_delta(st, event, delta_time, sysex_to_text, order) ==
    IF is_meta_event(event)
    THEN [st EXCEPT !.tracks = append_messages(@, event.track, <<meta_message(event, delta_time)>>)]
    ELSE IF BitAnd(event.status_byte, 240) = 240 /\ event.status_byte # 240
    THEN [st EXCEPT !.tracks = append_messages(@, event.track, <<text_message(event, delta_time)>>)]
    ELSE IF event.status_byte = 240
    THEN sysex_event(st, event, delta_time, sysex_to_text, effecting_multi_part_number(event), order)
    ELSE event_message(st, event, delta_time, sysex_to_text)

event_at_tick(st, event, tick, sysex_to_text, order) ==
    IF ~tick.ok THEN tick
    ELSE event_at_delta([st EXCEPT !.track_times[event.track + 1] = tick.ticks],
                        event, NumberSub(tick.ticks, st.track_times[event.track + 1]),
                        sysex_to_text, order)

p_track_to_midi_event(st, converter, event, sysex_to_text, order) ==
    event_at_tick(st, event, MidiTimeConverter_ms_to_ticks(converter, event.time),
                  sysex_to_text, order)


\* The events of __p_tracks_to_absolute_time_track: notes of two tracks, a
\* system message that is no SysEx, and SysEx messages on the first track
\* of their port: parameter changes of one and of two fields of a part,
\* of entries of the second half of the table, of an entry index beyond
\* the table, of another address, of a wrong device byte and of a
\* bend_pitch_control below 0x40, and a short SysEx message.
MaxToMidiEvents == 2

NativeParameterChange(device, high, mid, low, data, port, time) ==
    PTrackAbsoluteTimeEvent(240, <<67, device, 76, high, mid, low>> \o data \o <<0, 247>>,
                            port, port * CHANNELS_PER_PORT, time)

ToMidiEvents ==
    {PTrackAbsoluteTimeEvent(144, <<60, 100>>, 0, 0, 0),
     PTrackAbsoluteTimeEvent(144, <<60, 0>>, 0, 0, 500),
     PTrackAbsoluteTimeEvent(149, <<62, 100>>, 1, 21, 1000),
     PTrackAbsoluteTimeEvent(249, <<1>>, 0, 0, 500),
     NativeParameterChange(16, 2, 1, 27, <<90>>, 0, 500),
     NativeParameterChange(16, 2, 1, 1, <<1, 2>>, 1, 500),
     NativeParameterChange(16, 2, 17, 27, <<90>>, 0, 1000),
     NativeParameterChange(16, 2, 32, 27, <<90>>, 0, 0),
     NativeParameterChange(16, 2, 31, 27, <<90>>, 3, 0),
     NativeParameterChange(16, 0, 0, 4, <<90>>, 2, 500),
     NativeParameterChange(0, 2, 1, 27, <<90>>, 0, 500),
     NativeParameterChange(16, 2, 1, 65, <<63>>, 0, 500),
     PTrackAbsoluteTimeEvent(240, <<126, 247>>, 0, 0, 1000)}

\* The tempos and time signatures of an interpretation
ToMidiInterpretations ==
    {[tempos |-> <<<<0, 120>>>>, time_signatures |-> <<>>],
     [tempos |-> <<<<0, 120>>>>, time_signatures |-> <<<<0, 4, 4>>>>],
     [tempos |-> <<<<0, 125>>, <<1000, 120>>>>, time_signatures |-> <<>>],
     [tempos |-> <<<<500, 60>>>>, time_signatures |-> <<>>]}

InitPTrackToMidi ==
    /\ pc = "p_track_to_midi"
    /\ to_midi_call \in
            {[m_track_interpretation |-> interpretation_given, absolute_time_track |-> event_list,
              sysex_to_text |-> sysex_to_text] :
                interpretation_given \in ToMidiInterpretations,
                event_list \in {list \in SeqsOver(ToMidiEvents, MaxToMidiEvents) :
                                \A i \in 1 .. Len(list) - 1 : list[i].time <= list[i + 1].time},
                sysex_to_text \in BOOLEAN}
    /\ midi_devices = <<>>
    /\ midi_tracks = <<>>
    /\ track_times = <<>>
    /\ to_midi_events = <<>>
    /\ to_midi_index = 0
    /\ to_midi_outcome = Nothing
    /\ IdleParse
    /\ IdleTicks
    /\ IdleScrambled
    /\ IdleScan
    /\ IdleOkdToMidi
    /\ IdleConversion
    /\ IdleAdpcm
    /\ IdleRewrite
    /\ IdleTrackInfo
    /\ IdleInterpretation
    /\ IdleOkd
    /\ IdleVarInt
    /\ IdleScramble
    /\ IdlePTrack

othersToMidi == <<varsParse, varsTicks, varsScrambled, varsScan, varsOkdToMidi, varsConversion, varsAdpcm, varsRewrite, varsTrackInfo, varsInterpretation, varsOkdFile, varsChunk, varsVarInt, varsScramble, varsPTrack>>

\* The converter p_track_to_midi fills: the tempos of from_track are in
\* the order of their times, which add_tempo_change keeps.
ToMidiConverter ==
    [ppqn |-> TICKS_PER_BEAT, tempo_changes |-> to_midi_call.m_track_interpretation.tempos]

\* p_track_to_midi up to its loop: the devices, the 64 tracks with their
\* setup messages, `Track empty.`, the meta events and the sort
PTrackToMidiSetup ==
    /\ pc = "p_track_to_midi"
    /\ midi_devices' = <<initialize_state, initialize_state>>
    /\ midi_tracks' = midi_tracks_setup
    /\ IF to_midi_call.absolute_time_track = <<>>
       THEN /\ to_midi_outcome' = Raised("ValueError")
            /\ pc' = "done"
            /\ UNCHANGED <<track_times, to_midi_events>>
       ELSE /\ to_midi_events' =
                    SortByTime(<<>>,
                        to_midi_call.absolute_time_track
                            \o tempo_events(to_midi_call.m_track_interpretation.tempos)
                            \o time_signature_events(
                                    to_midi_call.m_track_interpretation.time_signatures))
            /\ track_times' = [track \in 1 .. PORTS * CHANNELS_PER_PORT |-> Zero]
            /\ pc' = "p_track_to_midi_loop"
            /\ UNCHANGED to_midi_outcome
    /\ UNCHANGED <<to_midi_call, to_midi_index, othersToMidi>>

\* The event the loop of p_track_to_midi handles next
NextToMidiEvent == to_midi_events[to_midi_index + 1]

\* One iteration of `for event in absolute_time_track`; the changed items
\* of a SysEx event come in one of the orders of their set
PTrackToMidiEvent ==
    /\ pc = "p_track_to_midi_loop"
    /\ to_midi_index < Len(to_midi_events)
    /\ \E order \in Orderings(sysex_changed_items(midi_devices, NextToMidiEvent)) :
        \E r \in {p_track_to_midi_event(
                    [ok |-> TRUE, tracks |-> midi_tracks, track_times |-> track_times,
                     devices |-> midi_devices],
                    ToMidiConverter, NextToMidiEvent, to_midi_call.sysex_to_text, order)} :
            IF r.ok
            THEN /\ midi_tracks' = r.tracks
                 /\ track_times' = r.track_times
                 /\ midi_devices' = r.devices
                 /\ to_midi_index' = to_midi_index + 1
                 /\ UNCHANGED <<pc, to_midi_outcome>>
            ELSE /\ to_midi_outcome' = r
                 /\ pc' = "done"
                 /\ UNCHANGED <<midi_tracks, track_times, midi_devices, to_midi_index>>
    /\ UNCHANGED <<to_midi_call, to_midi_events, othersToMidi>>

\* `return midi`
PTrackToMidiReturn ==
    /\ pc = "p_track_to_midi_loop"
    /\ to_midi_index = Len(to_midi_events)
    /\ to_midi_outcome' = Called("return")
    /\ pc' = "done"
    /\ UNCHANGED <<to_midi_call, midi_devices, midi_tracks, track_times, to_midi_events, to_midi_index, othersToMidi>>

NextPTrackToMidi == PTrackToMidiSetup \/ PTrackToMidiEvent \/ PTrackToMidiReturn

SpecPTrackToMidi == InitPTrackToMidi /\ [][NextPTrackToMidi]_vars

\* The sum of the delta times of the first n messages of a track
RECURSIVE TrackTicks(_, _)
TrackTicks(track, n) ==
    IF n = 0 THEN Zero ELSE NumberAdd(TrackTicks(track, n - 1), track[n].time)

NumberEq(a, b) == NumberLeq(a, b) /\ NumberLeq(b, a)

\* C29: every message an iteration of p_track_to_midi appends to a track,
\* for an event at time T, has a delta time of zero or more, and the delta
\* times of the track up to and with that message add up to ms_to_ticks(T).
C29_DeltaTimesAddUp ==
    [][(pc = "p_track_to_midi_loop" /\ pc' = "p_track_to_midi_loop") =>
            \A track \in 1 .. Len(midi_tracks) :
                \A n \in Len(midi_tracks[track]) + 1 .. Len(midi_tracks'[track]) :
                    /\ NumberLeq(Zero, midi_tracks'[track][n].time)
                    /\ NumberEq(TrackTicks(midi_tracks'[track], n),
                                MidiTimeConverter_ms_to_ticks(ToMidiConverter,
                                                              NextToMidiEvent.time).ticks)
      ]_vars

\* A SysEx event as PTrackEvent.read accepts it: data bytes below 0x80 up
\* to the 0xF7 that ends them
IsSysExEvent(event) ==
    /\ ~is_meta_event(event)
    /\ event.status_byte = 240
    /\ event.data_bytes # <<>>
    /\ event.data_bytes[Len(event.data_bytes)] = 247
    /\ is_data_bytes(SubSeq(event.data_bytes, 1, Len(event.data_bytes) - 1))

\* C30: the iteration of p_track_to_midi for a SysEx event of a port in
\* 0 .. 3 raises no IndexError: effecting_multi_part_number returns None or
\* a part number, and the track port * 16 + part_number that gets the
\* derived messages is one of the 64 tracks and one of the event's port.
C30_SysExWithoutIndexError ==
    [][(pc = "p_track_to_midi_loop" /\ to_midi_index < Len(to_midi_events)
            /\ IsSysExEvent(NextToMidiEvent)) =>
            /\ effecting_multi_part_number(NextToMidiEvent).ok
            /\ effecting_multi_part_number(NextToMidiEvent).value # None =>
                /\ NextToMidiEvent.port * PARTS_PER_PORT
                        + effecting_multi_part_number(NextToMidiEvent).value
                    \in 0 .. PORTS * CHANNELS_PER_PORT - 1
                /\ (NextToMidiEvent.port * PARTS_PER_PORT
                        + effecting_multi_part_number(NextToMidiEvent).value)
                        \div CHANNELS_PER_PORT = NextToMidiEvent.port
            /\ pc' = "done" => to_midi_outcome'.error # "IndexError"
      ]_vars

====
